---------------------------- MODULE Spec2Model ----------------------------
(***************************************************************************)
(* A model of logstream: the worker pool (pkg/worker/pool.go), the         *)
(* processing pipeline that dispatches onto it                             *)
(* (internal/processor/processor.go), and the two storage backends         *)
(* (MemoryStorage, DiskStorage).                                           *)
(*                                                                         *)
(* Two specifications share the module:                                    *)
(*   SpecPool     the pool and the pipeline counters                       *)
(*   SpecStorage  the in-memory and the on-disk backend                    *)
(* Each leaves the other's variables untouched.                            *)
(***************************************************************************)
EXTENDS Integers, Sequences, FiniteSets, TLC

(***************************************************************************)
(* Bounds of the model and constants of the program.                       *)
(***************************************************************************)

\* NewPool is called with 0..MaxWorkersArg workers.
MaxWorkersArg == 0

\* Process calls made by the collectors.
MaxBatches == 1

\* The largest batch exceeds the capacity of the job channel by MaxOverflow,
\* and so does the number of entries of all batches together.
MaxOverflow == 1

\* Start calls made on the pool.
MaxStarts == 1

\* Store calls made on a storage.
MaxStores == 3

\* WithCapacity is called with 0..MaxCapacity.
MaxCapacity == 2

\* WithMaxCacheSize is called with 1..MaxCacheSize.
MaxCacheSize == 2

\* Query.Limit ranges over 0..MaxLimit.
MaxLimit == 2

\* Filters, transformers and plugins registered with one LogProcessor, and
\* entries it processes.
MaxFilters == 2

MaxTransformers == 1

MaxPlugins == 2

MaxEntries == 1

\* Times the process dies in the middle of a Store.
MaxCrashes == 1

\* Ticks the ticker delivers, and lines written to the collected file.
MaxTicks == 3

MaxLines == 101

\* NewFileCollector: batchSize.
BatchSize == 100

\* make(chan Job, workers*100)
QueueFactor == 100

VARIABLES
    \* ---- worker pool (Pool) ----
    workers,        \* Pool.workers, after NewPool's clamp
    jobs,           \* Pool.jobs: the buffered channel's contents, oldest first
    jobsClosed,     \* close(p.jobs) has run
    wstate,         \* one element per worker goroutine: "select" | "running" | "exited"
    wjob,           \* the job a worker is running (0: none)
    startCalls,     \* number of Start calls so far
    rootDone,       \* the context given to Start is cancelled
    stopPc,         \* the first Stop call: "none" | "waiting" | "returned"
    stopVia,        \* how it returned: "none" | "done" | "deadline"
    startedAtStop,  \* Start had been called when Stop was called
    acceptedAtStop, \* jobs Submit had accepted when Stop was called
    crashed,        \* a goroutine panicked outside a recover scope
    startBudget,    \* number of Start calls the pool's owner makes
    stop2Pc,        \* a second Stop call: "none" | "waiting" | "returned"
    \* ---- pipeline (LogProcessor) and its callers ----
    procPos,        \* entries of the current batches already handed to Submit
    procEnd,        \* entries received by Process so far
    m,              \* the metrics singleton: counters by name
    accepted,       \* jobs sent on the channel
    dropped,        \* jobs Submit discarded
    executed,       \* jobs a worker ran to completion
    \* ---- storage ----
    backend,        \* "memory" | "disk"
    entries,        \* MemoryStorage.entries
    capacity,       \* MemoryStorage.capacity
    files,          \* the storage directory: day -> file content (tokens)
    currentFile,    \* DiskStorage.currentFile: 0 (nil) or the day whose file is open
    currentDay,     \* DiskStorage.currentDay
    inMemoryCache,  \* DiskStorage.inMemoryCache
    maxCacheSize,   \* DiskStorage.maxCacheSize
    storeLog,       \* the entries of the Store calls that returned nil, in call order
    closeCalled,    \* Close has returned on the storage
    last,           \* the last storage call and its result
    restarts,       \* times the process died in a Store and was started again
    \* ---- one LogProcessor, entry by entry ----
    pfilters,       \* LogProcessor.filters
    ptransformers,  \* LogProcessor.transformers (their number)
    pplugins,       \* LogProcessor.plugins
    pstored,        \* the entries p.storage.Store accepted, in call order
    run,            \* the last processEntry call: its entry, calls and counters
    \* ---- one FileCollector ----
    fcPc,           \* FileCollector.Start: "idle" | "select" | "reading" | "returned"
    fcResult,       \* what Start returned ("": not returned)
    fcFile,         \* what is at filePath: "file" | "dir" | "missing"
    tickPending,    \* ticker.C holds a tick (the channel has room for one)
    ticksSent,      \* ticks the ticker has delivered
    linesWritten,   \* lines written to the file so far
    unread,         \* lines of the file the scanner has not returned
    scannerDone,    \* the scanner has hit the end of the file
    sent,           \* the batches handed to Process, in order
    ticksAfterDone, \* ticks Start took from ticker.C after ctx was done
    \* ---- one HTTPCollector ----
    hcPc,           \* HTTPCollector.Start: "none" | "idle" | "select" | "fetching" | "returned" | "panicked"
    hcResult,       \* what Start returned ("": not returned)
    hcCtx,          \* ctx.Err() of the context given to Start ("": not done)
    hcTick,         \* ticker.C holds a tick
    hcTicks,        \* ticks the ticker has delivered
    hcResp,         \* the endpoint's answer to the request in flight
    hcLast,         \* what the last fetch call returned ("": none yet)
    hcFailed,       \* fetch calls that returned an error
    hcProcessed,    \* batches fetch handed to processor.Process
    hcBatch,        \* the entries the last fetch call handed to processor.Process (<<>>: none)
    \* ---- runCollect's error group ----
    sgState,        \* per collector: "idle" | "running" | "returned"
    sgReturns,      \* the errors the collectors' Start calls returned, in order of return
    sgErr,          \* errgroup.Group.err
    sgCancelled,    \* the group's context is done
    sgWait,         \* g.Wait(): "none" | "waiting" | "returned"
    sgWaitErr,      \* what g.Wait() returned
    \* ---- one plugin Registry ----
    rPlugins,       \* Registry.plugins: name -> plugin instance (0: no entry)
    rFirst,         \* per name, the first instance registered since the registry was emptied (0: none)
    rLast,          \* the last call on the registry and its result
    \* ---- one Transformer and the entry it is applied to ----
    trT,            \* the transformer
    trEntry,        \* the entry, which Transform changes in place
    trHist,         \* the entry before the first Transform call and after each call
    \* ---- one Engine.ParseQuery call ----
    pqTokens,       \* strings.Fields(queryString)
    pqCalled,       \* ParseQuery has returned
    pqResult,       \* the Query it returned
    \* ---- one Engine.findPatterns call ----
    paEntries,      \* the messages of the entries the query returned, in order
    paConfig,       \* analysis.PatternConfig
    paCalled,       \* findPatterns has returned
    paResult,       \* the patterns it returned (the order of the slice is left out)
    \* ---- one LogProcessor, one processEntry call at a time, stage by stage ----
    lpHeap,         \* per kind of stage, the backing arrays allocated for the list
    lpLists,        \* LogProcessor.filters, .transformers, .plugins: per kind a slice header
    lpRegistered,   \* per kind, the items the Add calls that returned have registered, in order
    lpPc,           \* processEntry: "none" | "idle" | "lock" | "range" | "store"
    lpStage,        \* the stage processEntry is in: "filter" | "transformer" | "plugin" | "store"
    lpSnap,         \* the local filters, transformers or plugins: the header copied under RLock
    lpIdx,          \* elements of the local slice the range loop has visited
    lpEntry,        \* the entry being processed, changed in place
    lpAtSnap,       \* per kind, lpRegistered[kind] when this call copied the header
    lpCalls,        \* the calls this processEntry call has made on the entry, in order
    lpStored,       \* per Store call: the entry as Store received it, and the call's lpCalls and lpAtSnap
    lpCount,        \* processEntry calls begun
    lpMetrics,      \* LogEntriesFiltered, LogEntriesProcessed, LogEntriesErrored
    \* ---- one MemoryStorage with Store and Query callers, lock by lock ----
    mcEntries,      \* MemoryStorage.entries
    mcCapacity,     \* MemoryStorage.capacity
    mcWriter,       \* the Store caller that holds m.mutex (0: none)
    mcReaders,      \* callers that hold m.mutex for reading
    mcPc,           \* per Store caller: "idle" | "lock" | "check" | "append" | "unlock"
    mcArg,          \* per Store caller: the entry of its call
    mcLog,          \* the entries appended, in the order of the appends
    mcStores,       \* Store calls begun
    mcQPc,          \* the Query caller: "none" | "idle" | "rlock" | "scan" | "runlock"
    mcQ,            \* the query of its call
    mcSeen,         \* m.entries as the last Query's loop ranged over it
    mcRes,          \* the entries the last Query returned
    mcQueries,      \* Query calls begun
    \* ---- one RateLimitMiddleware and the goroutines serving requests through it ----
    rlRps,          \* the rps argument
    rlTokens,       \* the captured variable tokens
    rlPc,           \* per serving goroutine: "idle" | "consume" | "write" | "serve"
    rlLocal,        \* per serving goroutine: the value of tokens it read for tokens--
    rlStatus,       \* per serving goroutine: the status of its last response (0: none)
    rlAdmitted,     \* requests that passed the test of tokens since the last refill
    rlRefills,      \* ticks the refill goroutine has handled
    rlRequests      \* requests begun

poolVars == <<workers, jobs, jobsClosed, wstate, wjob, startCalls, rootDone,
              stopPc, stopVia, startedAtStop, acceptedAtStop, crashed,
              startBudget, stop2Pc,
              procPos, procEnd, m, accepted, dropped, executed>>

storageVars == <<backend, entries, capacity, files, currentFile, currentDay,
                 inMemoryCache, maxCacheSize, storeLog, closeCalled, last,
                 restarts>>

pipeVars == <<pfilters, ptransformers, pplugins, pstored, run>>

collectorVars == <<fcPc, fcResult, fcFile, tickPending, ticksSent,
                   linesWritten, unread, scannerDone, sent, ticksAfterDone>>

httpVars == <<hcPc, hcResult, hcCtx, hcTick, hcTicks, hcResp, hcLast,
              hcFailed, hcProcessed, hcBatch>>

supVars == <<sgState, sgReturns, sgErr, sgCancelled, sgWait,
             sgWaitErr>>

registryVars == <<rPlugins, rFirst, rLast>>

transformVars == <<trT, trEntry, trHist>>

parseVars == <<pqTokens, pqCalled, pqResult>>

patternVars == <<paEntries, paConfig, paCalled, paResult>>

stageVars == <<lpHeap, lpLists, lpRegistered, lpPc, lpStage, lpSnap,
               lpIdx, lpEntry, lpAtSnap, lpCalls, lpStored, lpCount,
               lpMetrics>>

memConcVars == <<mcEntries, mcCapacity, mcWriter, mcReaders, mcPc,
                 mcArg, mcLog, mcStores, mcQPc, mcQ, mcSeen, mcRes,
                 mcQueries>>

rateVars == <<rlRps, rlTokens, rlPc, rlLocal, rlStatus, rlAdmitted,
              rlRefills, rlRequests>>

moreVars == <<httpVars, supVars, registryVars, transformVars,
              parseVars, patternVars, stageVars, memConcVars,
              rateVars>>

oldVars == <<poolVars, storageVars, pipeVars, collectorVars>>

\* What the actions of one of these units leave alone.
nonHttpVars == <<oldVars, supVars, registryVars, transformVars,
                 parseVars, patternVars, stageVars, memConcVars,
                 rateVars>>

nonSupVars == <<oldVars, httpVars, registryVars, transformVars,
                parseVars, patternVars, stageVars, memConcVars,
                rateVars>>

nonRegistryVars == <<oldVars, httpVars, supVars, transformVars,
                     parseVars, patternVars, stageVars, memConcVars,
                     rateVars>>

nonTransformVars == <<oldVars, httpVars, supVars, registryVars,
                      parseVars, patternVars, stageVars, memConcVars,
                      rateVars>>

nonParseVars == <<oldVars, httpVars, supVars, registryVars,
                  transformVars, patternVars, stageVars, memConcVars,
                  rateVars>>

nonPatternVars == <<oldVars, httpVars, supVars, registryVars,
                    transformVars, parseVars, stageVars, memConcVars,
                    rateVars>>

nonStageVars == <<oldVars, httpVars, supVars, registryVars,
                  transformVars, parseVars, patternVars, memConcVars,
                  rateVars>>

nonMemConcVars == <<oldVars, httpVars, supVars, registryVars,
                    transformVars, parseVars, patternVars, stageVars,
                    rateVars>>

nonRateVars == <<oldVars, httpVars, supVars, registryVars,
                 transformVars, parseVars, patternVars, stageVars,
                 memConcVars>>

\* What the pool's actions and the storage's actions leave alone.
nonPoolVars == <<storageVars, pipeVars, collectorVars, moreVars>>

nonStorageVars == <<poolVars, pipeVars, collectorVars, moreVars>>

vars == <<poolVars, storageVars, pipeVars, collectorVars, moreVars>>

\* The units below are not constructed in the specifications of the pool,
\* the storage, the pipeline and the file collector.
NoHTTPCollector ==
    /\ hcPc = "none"
    /\ hcResult = ""
    /\ hcCtx = ""
    /\ hcTick = FALSE
    /\ hcTicks = 0
    /\ hcResp = <<>>
    /\ hcLast = ""
    /\ hcFailed = 0
    /\ hcProcessed = 0
    /\ hcBatch = <<>>

NoSupervisor ==
    /\ sgState = <<>>
    /\ sgReturns = <<>>
    /\ sgErr = ""
    /\ sgCancelled = FALSE
    /\ sgWait = "none"
    /\ sgWaitErr = ""

NoRegistry ==
    /\ rPlugins = <<>>
    /\ rFirst = <<>>
    /\ rLast = <<>>

NoTransform ==
    /\ trT = <<>>
    /\ trEntry = <<>>
    /\ trHist = <<>>

NoParse ==
    /\ pqTokens = <<>>
    /\ pqCalled = FALSE
    /\ pqResult = <<>>

NoPatterns ==
    /\ paEntries = <<>>
    /\ paConfig = <<>>
    /\ paCalled = FALSE
    /\ paResult = {}

NoStages ==
    /\ lpHeap = <<>>
    /\ lpLists = <<>>
    /\ lpRegistered = <<>>
    /\ lpPc = "none"
    /\ lpStage = ""
    /\ lpSnap = <<>>
    /\ lpIdx = 0
    /\ lpEntry = <<>>
    /\ lpAtSnap = <<>>
    /\ lpCalls = <<>>
    /\ lpStored = <<>>
    /\ lpCount = 0
    /\ lpMetrics = <<>>

NoMemConc ==
    /\ mcEntries = <<>>
    /\ mcCapacity = 0
    /\ mcWriter = 0
    /\ mcReaders = 0
    /\ mcPc = <<>>
    /\ mcArg = <<>>
    /\ mcLog = <<>>
    /\ mcStores = 0
    /\ mcQPc = "none"
    /\ mcQ = <<>>
    /\ mcSeen = <<>>
    /\ mcRes = <<>>
    /\ mcQueries = 0

NoRateLimit ==
    /\ rlRps = 0
    /\ rlTokens = 0
    /\ rlPc = <<>>
    /\ rlLocal = <<>>
    /\ rlStatus = <<>>
    /\ rlAdmitted = 0
    /\ rlRefills = 0
    /\ rlRequests = 0

IdleExceptHTTP ==
    /\ NoSupervisor
    /\ NoRegistry
    /\ NoTransform
    /\ NoParse
    /\ NoPatterns
    /\ NoStages
    /\ NoMemConc
    /\ NoRateLimit

IdleExceptSupervisor ==
    /\ NoHTTPCollector
    /\ NoRegistry
    /\ NoTransform
    /\ NoParse
    /\ NoPatterns
    /\ NoStages
    /\ NoMemConc
    /\ NoRateLimit

IdleExceptRegistry ==
    /\ NoHTTPCollector
    /\ NoSupervisor
    /\ NoTransform
    /\ NoParse
    /\ NoPatterns
    /\ NoStages
    /\ NoMemConc
    /\ NoRateLimit

IdleExceptTransform ==
    /\ NoHTTPCollector
    /\ NoSupervisor
    /\ NoRegistry
    /\ NoParse
    /\ NoPatterns
    /\ NoStages
    /\ NoMemConc
    /\ NoRateLimit

IdleExceptParse ==
    /\ NoHTTPCollector
    /\ NoSupervisor
    /\ NoRegistry
    /\ NoTransform
    /\ NoPatterns
    /\ NoStages
    /\ NoMemConc
    /\ NoRateLimit

IdleExceptPatterns ==
    /\ NoHTTPCollector
    /\ NoSupervisor
    /\ NoRegistry
    /\ NoTransform
    /\ NoParse
    /\ NoStages
    /\ NoMemConc
    /\ NoRateLimit

IdleExceptStages ==
    /\ NoHTTPCollector
    /\ NoSupervisor
    /\ NoRegistry
    /\ NoTransform
    /\ NoParse
    /\ NoPatterns
    /\ NoMemConc
    /\ NoRateLimit

IdleExceptMemConc ==
    /\ NoHTTPCollector
    /\ NoSupervisor
    /\ NoRegistry
    /\ NoTransform
    /\ NoParse
    /\ NoPatterns
    /\ NoStages
    /\ NoRateLimit

IdleExceptRateLimit ==
    /\ NoHTTPCollector
    /\ NoSupervisor
    /\ NoRegistry
    /\ NoTransform
    /\ NoParse
    /\ NoPatterns
    /\ NoStages
    /\ NoMemConc

OtherUnitsIdle ==
    /\ NoHTTPCollector
    /\ NoSupervisor
    /\ NoRegistry
    /\ NoTransform
    /\ NoParse
    /\ NoPatterns
    /\ NoStages
    /\ NoMemConc
    /\ NoRateLimit


(***************************************************************************)
(* Worker pool: pkg/worker/pool.go                                         *)
(***************************************************************************)

\* NewPool: "if workers < 1 { workers = 1 }"
ClampWorkers(n) == IF n < 1 THEN 1 ELSE n

\* cap(p.jobs)
QueueCap == workers * QueueFactor

Metrics0 ==
    [received |-> 0, batches |-> 0, processed |-> 0, filtered |-> 0,
     errored |-> 0, workQueueSize |-> 0, workItemsProcessed |-> 0,
     workItemsErrored |-> 0]

\* The state NewPool(n) and NewProcessor leave behind.
NewPool(n) ==
    /\ workers = ClampWorkers(n)
    /\ jobs = <<>>
    /\ jobsClosed = FALSE
    /\ wstate = <<>>
    /\ wjob = <<>>
    /\ startCalls = 0
    /\ rootDone = FALSE
    /\ stopPc = "none"
    /\ stop2Pc = "none"
    /\ stopVia = "none"
    /\ startedAtStop = FALSE
    /\ acceptedAtStop = {}
    /\ crashed = FALSE
    /\ procPos = 0
    /\ procEnd = 0
    /\ m = Metrics0
    /\ accepted = {}
    /\ dropped = {}
    /\ executed = {}

\* A Submit that sends whatever the queue holds (what a plain "p.jobs <- job"
\* on an unbounded queue would do).
SubmitUnbounded(job) ==
    /\ jobs' = Append(jobs, job)
    /\ m' = [m EXCEPT !.workQueueSize = @ + 1]
    /\ accepted' = accepted \cup {job}
    /\ UNCHANGED <<dropped, crashed>>

\* A Submit that puts the job at the head of the queue.
SubmitAtFront(job) ==
    IF jobsClosed
    THEN /\ crashed' = TRUE
         /\ UNCHANGED <<jobs, m, accepted, dropped>>
    ELSE IF Len(jobs) < QueueCap
         THEN /\ jobs' = <<job>> \o jobs
              /\ m' = [m EXCEPT !.workQueueSize = @ + 1]
              /\ accepted' = accepted \cup {job}
              /\ UNCHANGED <<dropped, crashed>>
         ELSE /\ m' = [m EXCEPT !.workItemsErrored = @ + 1]
              /\ dropped' = dropped \cup {job}
              /\ UNCHANGED <<jobs, accepted, crashed>>

\* Pool.Submit: select { case p.jobs <- job: ... default: ... }.
\* A send on a closed channel panics, also inside a select with a default.
Submit(job) ==
    IF jobsClosed
    THEN /\ crashed' = TRUE
         /\ UNCHANGED <<jobs, m, accepted, dropped>>
    ELSE IF Len(jobs) < QueueCap
         THEN /\ jobs' = Append(jobs, job)
              /\ m' = [m EXCEPT !.workQueueSize = @ + 1]
              /\ accepted' = accepted \cup {job}
              /\ UNCHANGED <<dropped, crashed>>
         ELSE /\ m' = [m EXCEPT !.workItemsErrored = @ + 1]
              /\ dropped' = dropped \cup {job}
              /\ UNCHANGED <<jobs, accepted, crashed>>

\* Pool.Start: one worker goroutine per p.workers, each counted in p.wg.
Start ==
    /\ ~crashed
    /\ startCalls < startBudget
    /\ startCalls' = startCalls + 1
    /\ wstate' = wstate \o [i \in 1..workers |-> "select"]
    /\ wjob' = wjob \o [i \in 1..workers |-> 0]
    /\ UNCHANGED nonPoolVars
    /\ UNCHANGED <<startBudget, stop2Pc, workers, jobs, jobsClosed, rootDone, stopPc, stopVia,
                   startedAtStop, acceptedAtStop, crashed, procPos, procEnd,
                   m, accepted, dropped, executed>>

\* The signal handler (or a failing collector) cancels the root context.
RootCancel ==
    /\ ~crashed
    /\ ~rootDone
    /\ rootDone' = TRUE
    /\ UNCHANGED nonPoolVars
    /\ UNCHANGED <<startBudget, stop2Pc, workers, jobs, jobsClosed, wstate, wjob, startCalls,
                   stopPc, stopVia, startedAtStop, acceptedAtStop, crashed,
                   procPos, procEnd, m, accepted, dropped, executed>>

\* Pool.worker, "case <-ctx.Done(): return".
WorkerExitCancelled(w) ==
    /\ ~crashed
    /\ wstate[w] = "select"
    /\ rootDone
    /\ wstate' = [wstate EXCEPT ![w] = "exited"]
    /\ UNCHANGED nonPoolVars
    /\ UNCHANGED <<startBudget, stop2Pc, workers, jobs, jobsClosed, wjob, startCalls, rootDone,
                   stopPc, stopVia, startedAtStop, acceptedAtStop, crashed,
                   procPos, procEnd, m, accepted, dropped, executed>>

\* Pool.worker, "case job, ok := <-p.jobs" with ok = false: closed and empty.
WorkerExitClosed(w) ==
    /\ ~crashed
    /\ wstate[w] = "select"
    /\ jobsClosed
    /\ jobs = <<>>
    /\ wstate' = [wstate EXCEPT ![w] = "exited"]
    /\ UNCHANGED nonPoolVars
    /\ UNCHANGED <<startBudget, stop2Pc, workers, jobs, jobsClosed, wjob, startCalls, rootDone,
                   stopPc, stopVia, startedAtStop, acceptedAtStop, crashed,
                   procPos, procEnd, m, accepted, dropped, executed>>

\* A receive that hands the oldest job to the worker and leaves it in the
\* queue.
WorkerPeek(w) ==
    /\ ~crashed
    /\ wstate[w] = "select"
    /\ jobs # <<>>
    /\ wstate' = [wstate EXCEPT ![w] = "running"]
    /\ wjob' = [wjob EXCEPT ![w] = Head(jobs)]
    /\ UNCHANGED nonPoolVars
    /\ UNCHANGED <<startBudget, stop2Pc, workers, jobs, jobsClosed, startCalls, rootDone, stopPc,
                   stopVia, startedAtStop, acceptedAtStop, crashed, procPos, procEnd,
                   m, accepted, dropped, executed>>

\* Pool.worker, "case job, ok := <-p.jobs" with ok = true: the oldest job.
WorkerReceive(w) ==
    /\ ~crashed
    /\ wstate[w] = "select"
    /\ jobs # <<>>
    /\ wstate' = [wstate EXCEPT ![w] = "running"]
    /\ wjob' = [wjob EXCEPT ![w] = Head(jobs)]
    /\ jobs' = Tail(jobs)
    /\ UNCHANGED nonPoolVars
    /\ UNCHANGED <<startBudget, stop2Pc, workers, jobsClosed, startCalls, rootDone, stopPc, stopVia,
                   startedAtStop, acceptedAtStop, crashed, procPos, procEnd,
                   m, accepted, dropped, executed>>

(***************************************************************************)
(* Pipeline: internal/processor/processor.go                               *)
(***************************************************************************)

\* strings.ToLower on the level names the batches use.
LowerLevel(l) ==
    CASE l = "DEBUG" -> "debug"
      [] l = "INFO" -> "info"
      [] OTHER -> l

\* The i-th entry a collector hands to Process.
BatchEntry(i) ==
    [level |-> CASE i % 5 = 0 -> ""
                 [] i % 3 = 0 -> "DEBUG"
                 [] OTHER -> "info",
     \* whether json.Marshal accepts the entry's field values
     marshalable |-> i % 7 # 0]

\* What p.storage.Store returns for the entry: MemoryStorage.Store never
\* fails; DiskStorage.Store fails when json.Marshal rejects the entry.
StoreOk(entry) == entry.marshalable

\* LevelFilter.Apply
LevelFilterApply(f, entry) ==
    IF entry.level = ""
    THEN ~f.IncludeLevels
    ELSE (LowerLevel(entry.level) \in f.Levels) = f.IncludeLevels

\* The filters registered with AddFilter: NewLevelFilter({"debug"}, false).
filters == << [Levels |-> {"debug"}, IncludeLevels |-> FALSE] >>

\* processEntry's filter loop: TRUE iff every filter lets the entry pass.
PassesFilters(entry) ==
    \A i \in 1..Len(filters) : LevelFilterApply(filters[i], entry)

\* LogProcessor.processEntry, as its effect on the pipeline counters:
\* storeOk is what p.storage.Store returned for the entry.
processEntry(mm, entry, storeOk) ==
    IF ~PassesFilters(entry)
    THEN [mm EXCEPT !.filtered = @ + 1]
    ELSE IF ~storeOk
         THEN [mm EXCEPT !.errored = @ + 1]
         ELSE [mm EXCEPT !.processed = @ + 1]

\* Pool.processJob around the job func() { p.processEntry(ctx, entry) }.
WorkerFinish(w) ==
    /\ ~crashed
    /\ wstate[w] = "running"
    /\ m' = [processEntry(m, BatchEntry(wjob[w]), StoreOk(BatchEntry(wjob[w])))
                EXCEPT !.workItemsProcessed = @ + 1]
    /\ executed' = executed \cup {wjob[w]}
    /\ wstate' = [wstate EXCEPT ![w] = "select"]
    /\ wjob' = [wjob EXCEPT ![w] = 0]
    /\ UNCHANGED nonPoolVars
    /\ UNCHANGED <<startBudget, stop2Pc, workers, jobs, jobsClosed, startCalls, rootDone, stopPc,
                   stopVia, startedAtStop, acceptedAtStop, crashed, procPos,
                   procEnd, accepted, dropped>>

\* LogProcessor.Process, up to its loop: the batch is counted as received.
Process(n) ==
    /\ ~crashed
    /\ procPos = procEnd
    /\ n > 0
    /\ m.batches < MaxBatches
    /\ procEnd + n <= QueueCap + MaxOverflow
    /\ procEnd' = procEnd + n
    /\ m' = [m EXCEPT !.batches = @ + 1, !.received = @ + n]
    /\ UNCHANGED nonPoolVars
    /\ UNCHANGED <<startBudget, stop2Pc, workers, jobs, jobsClosed, wstate, wjob, startCalls,
                   rootDone, stopPc, stopVia, startedAtStop, acceptedAtStop,
                   crashed, procPos, accepted, dropped, executed>>

\* One iteration of Process's loop: p.workerPool.Submit(func() {...}).
ProcessSubmit ==
    /\ ~crashed
    /\ procPos < procEnd
    /\ procPos' = procPos + 1
    /\ Submit(procPos + 1)
    /\ UNCHANGED nonPoolVars
    /\ UNCHANGED <<startBudget, stop2Pc, workers, jobsClosed, wstate, wjob, startCalls, rootDone,
                   stopPc, stopVia, startedAtStop, acceptedAtStop, procEnd,
                   executed>>

\* Pool.Stop, first call, up to its select: close(p.jobs).
StopBegin ==
    /\ ~crashed
    /\ stopPc = "none"
    /\ stopPc' = "waiting"
    /\ jobsClosed' = TRUE
    /\ startedAtStop' = (startCalls > 0)
    /\ acceptedAtStop' = accepted
    /\ UNCHANGED nonPoolVars
    /\ UNCHANGED <<startBudget, stop2Pc, workers, jobs, wstate, wjob, startCalls, rootDone, stopVia,
                   crashed, procPos, procEnd, m, accepted, dropped, executed>>

\* A wait group that is taken to be done as soon as no job is running.
WaitGroupIdle == \A w \in 1..Len(wstate) : wstate[w] # "running"

\* p.wg.Wait() returns: every worker counted in the wait group has exited.
WaitGroupZero == \A w \in 1..Len(wstate) : wstate[w] = "exited"

\* Pool.Stop, "case <-done": all workers exited.
StopDone ==
    /\ ~crashed
    /\ stopPc = "waiting"
    /\ WaitGroupZero
    /\ stopPc' = "returned"
    /\ stopVia' = "done"
    /\ UNCHANGED nonPoolVars
    /\ UNCHANGED <<startBudget, stop2Pc, workers, jobs, jobsClosed, wstate, wjob, startCalls,
                   rootDone, startedAtStop, acceptedAtStop, crashed, procPos,
                   procEnd, m, accepted, dropped, executed>>

\* Pool.Stop, "case <-ctx.Done()": the deadline expired first.
StopDeadline ==
    /\ ~crashed
    /\ stopPc = "waiting"
    /\ stopPc' = "returned"
    /\ stopVia' = "deadline"
    /\ UNCHANGED nonPoolVars
    /\ UNCHANGED <<startBudget, stop2Pc, workers, jobs, jobsClosed, wstate, wjob, startCalls,
                   rootDone, startedAtStop, acceptedAtStop, crashed, procPos,
                   procEnd, m, accepted, dropped, executed>>

\* A Once that runs its function on every call.
OnceDoAlways(done) == TRUE

\* sync.Once.Do: the function runs iff no earlier Do has run it.
OnceDo(done) == ~done

\* Pool.Stop, a call made after the first one has begun: p.stopOnce.Do runs
\* the function (close(p.jobs), wait) only if it has not run; close of a
\* closed channel panics.
StopAgainCall ==
    /\ ~crashed
    /\ stopPc # "none"
    /\ stop2Pc = "none"
    /\ stop2Pc' = "waiting"
    /\ IF OnceDo(stopPc # "none")
       THEN IF jobsClosed
            THEN crashed' = TRUE /\ UNCHANGED jobsClosed
            ELSE jobsClosed' = TRUE /\ UNCHANGED crashed
       ELSE UNCHANGED <<jobsClosed, crashed>>
    /\ UNCHANGED nonPoolVars
    /\ UNCHANGED <<startBudget, workers, jobs, wstate, wjob, startCalls,
                   rootDone, stopPc, stopVia, startedAtStop, acceptedAtStop,
                   procPos, procEnd, m, accepted, dropped, executed>>

\* The second Stop call returns: Once.Do returns once the first call's
\* function has returned.
StopAgainReturn ==
    /\ ~crashed
    /\ stop2Pc = "waiting"
    /\ stopPc = "returned"
    /\ stop2Pc' = "returned"
    /\ UNCHANGED nonPoolVars
    /\ UNCHANGED <<startBudget, workers, jobs, jobsClosed, wstate, wjob,
                   startCalls, rootDone, stopPc, stopVia, startedAtStop,
                   acceptedAtStop, crashed, procPos, procEnd, m, accepted,
                   dropped, executed>>

\* Batch sizes the collectors hand to Process.
BatchSizes == {1} \cup {QueueCap + k : k \in 1..MaxOverflow}

(***************************************************************************)
(* File collector: FileCollector.Start.  The context it is given is the    *)
(* root context (rootDone).                                                *)
(***************************************************************************)

\* NewFileCollector on a path, before Start.
NewFileCollector ==
    /\ fcPc = "idle"
    /\ fcResult = ""
    /\ tickPending = FALSE
    /\ ticksSent = 0
    /\ linesWritten = 0
    /\ unread = 0
    /\ scannerDone = FALSE
    /\ sent = <<>>
    /\ ticksAfterDone = 0

\* FileCollector.Start up to its loop: os.Stat, IsDir, os.Open, NewTicker.
FcStart ==
    /\ fcPc = "idle"
    /\ IF fcFile = "file"
       THEN fcPc' = "select" /\ UNCHANGED fcResult
       ELSE /\ fcPc' = "returned"
            /\ fcResult' = IF fcFile = "dir" THEN "is a directory"
                           ELSE "cannot access file"
    /\ UNCHANGED <<fcFile, tickPending, ticksSent, linesWritten, unread,
                   scannerDone, sent, ticksAfterDone>>
    /\ UNCHANGED <<poolVars, storageVars, pipeVars, moreVars>>

\* time.Ticker: a poll interval has passed; the tick is dropped when
\* ticker.C still holds the previous one.
Tick ==
    /\ fcPc \in {"select", "reading"}
    /\ ticksSent < MaxTicks
    /\ ticksSent' = ticksSent + 1
    /\ tickPending' = TRUE
    /\ UNCHANGED <<fcPc, fcResult, fcFile, linesWritten, unread, scannerDone,
                   sent, ticksAfterDone>>
    /\ UNCHANGED <<poolVars, storageVars, pipeVars, moreVars>>

\* Another process appends k lines to the file.
AppendLines(k) ==
    /\ fcFile = "file"
    /\ linesWritten + k <= MaxLines
    /\ linesWritten' = linesWritten + k
    /\ unread' = unread + k
    /\ UNCHANGED <<fcPc, fcResult, fcFile, tickPending, ticksSent, scannerDone,
                   sent, ticksAfterDone>>
    /\ UNCHANGED <<poolVars, storageVars, pipeVars, moreVars>>

\* Start's select, "case <-ctx.Done(): return ctx.Err()".
SelectDone ==
    /\ fcPc = "select"
    /\ rootDone
    /\ fcPc' = "returned"
    /\ fcResult' = "ctx.Err()"
    /\ UNCHANGED <<fcFile, tickPending, ticksSent, linesWritten, unread,
                   scannerDone, sent, ticksAfterDone>>
    /\ UNCHANGED <<poolVars, storageVars, pipeVars, moreVars>>

\* Start's select, "case <-ticker.C": taken when a tick is there, also when
\* ctx.Done() is ready too (select chooses among the ready cases).
SelectTick ==
    /\ fcPc = "select"
    /\ tickPending
    /\ tickPending' = FALSE
    /\ fcPc' = "reading"
    /\ ticksAfterDone' = IF rootDone THEN ticksAfterDone + 1 ELSE ticksAfterDone
    /\ UNCHANGED <<fcResult, fcFile, ticksSent, linesWritten, unread,
                   scannerDone, sent>>
    /\ UNCHANGED <<poolVars, storageVars, pipeVars, moreVars>>

\* fc.Source(): "file://" and the cleaned path.
FcSource == "file://path"

\* The entry the scan loop makes of the i-th line of the file (the text of a
\* line is its number; the timestamp, time.Now(), is left out).
LineEntry(i) == [Source |-> FcSource, RawData |-> i, Message |-> i]

RECURSIVE ScanLoopKeepsBatch(_, _, _, _)
\* A scan loop that hands over a full batch and goes on appending to it.
ScanLoopKeepsBatch(next, end, batch, out) ==
    IF next > end
    THEN IF Len(batch) > 0 THEN Append(out, batch) ELSE out
    ELSE LET b == Append(batch, LineEntry(next))
         IN  IF Len(b) >= BatchSize
             THEN ScanLoopKeepsBatch(next + 1, end, b, Append(out, b))
             ELSE ScanLoopKeepsBatch(next + 1, end, b, out)

RECURSIVE ScanLoop(_, _, _, _)
\* "for scanner.Scan() { ... }" over the lines next..end and the block after
\* it: each line becomes an entry appended to batch; a batch of BatchSize
\* entries is handed to Process and emptied; what is left after the last
\* line is handed to Process.  out: the batches handed over, in order.
ScanLoop(next, end, batch, out) ==
    IF next > end
    THEN IF Len(batch) > 0 THEN Append(out, batch) ELSE out
    ELSE LET b == Append(batch, LineEntry(next))
         IN  IF Len(b) >= BatchSize
             THEN ScanLoop(next + 1, end, <<>>, Append(out, b))
             ELSE ScanLoop(next + 1, end, b, out)

\* The body of "case <-ticker.C": the scan loop until scanner.Scan() returns
\* false, with no error.  Once the scanner has met the end of the file, Scan
\* returns false at once on every later call.
ReadLines ==
    /\ fcPc = "reading"
    /\ fcPc' = "select"
    /\ IF scannerDone
       THEN UNCHANGED <<unread, sent>>
       ELSE /\ unread' = 0
            /\ sent' = sent \o ScanLoop(linesWritten - unread + 1, linesWritten,
                                        <<>>, <<>>)
    /\ scannerDone' = TRUE
    /\ UNCHANGED <<fcResult, fcFile, tickPending, ticksSent, linesWritten,
                   ticksAfterDone>>
    /\ UNCHANGED <<poolVars, storageVars, pipeVars, moreVars>>

\* The body of "case <-ticker.C" when scanner.Err() is not nil (a read
\* error, or a line longer than the scanner's buffer).
ReadError ==
    /\ fcPc = "reading"
    /\ ~scannerDone
    /\ fcPc' = "returned"
    /\ fcResult' = "error reading file"
    /\ UNCHANGED <<fcFile, tickPending, ticksSent, linesWritten, unread,
                   scannerDone, sent, ticksAfterDone>>
    /\ UNCHANGED <<poolVars, storageVars, pipeVars, moreVars>>

(***************************************************************************)
(* One entry through LogProcessor.processEntry, call by call.  Texts are   *)
(* sequences of characters.  The raw texts used: <<"{", ..., "}">> a JSON  *)
(* object whose "msg" member is the text between the braces; <<"{", ...>>  *)
(* without the closing brace, which json.Unmarshal rejects; <<"1", ...>>   *)
(* an access-log line, which the "apache" pattern of RegexParser matches;  *)
(* anything else, which no parser accepts.                                 *)
(***************************************************************************)

\* JSONParser.CanParse
JSONCanParse(raw) == raw # <<>> /\ Head(raw) = "{"

\* JSONParser.Parse: [err, entry]
JSONParse(entry) ==
    LET raw == entry.RawData
        inner == SubSeq(raw, 2, Len(raw) - 1)
    IN  IF Len(raw) < 2 \/ raw[Len(raw)] # "}"
        THEN [err |-> TRUE, entry |-> entry]
        ELSE [err |-> FALSE,
              entry |-> [entry EXCEPT !.Message =
                            IF inner # <<>> THEN inner
                            ELSE IF @ = <<>> THEN raw ELSE @]]

\* RegexParser.CanParse
RegexCanParse(raw) == raw # <<>> /\ Head(raw) = "1"

\* RegexParser.Parse with the "apache" pattern (no message group): the
\* message, if empty, becomes the line; the captured groups become fields.
RegexParse(entry) ==
    IF RegexCanParse(entry.RawData)
    THEN [err |-> FALSE,
          entry |-> [entry EXCEPT
                        !.Message = IF @ = <<>> THEN entry.RawData ELSE @,
                        !.hasFields = TRUE]]
    ELSE [err |-> FALSE,
          entry |-> [entry EXCEPT
                        !.Message = IF @ = <<>> THEN entry.RawData ELSE @]]

\* NewProcessor's default parsers.
parsers == <<"json", "regex">>

CanParse(p, raw) == IF p = "json" THEN JSONCanParse(raw) ELSE RegexCanParse(raw)

Parse(p, entry) == IF p = "json" THEN JSONParse(entry) ELSE RegexParse(entry)

RECURSIVE TryParsers(_, _)
\* processEntry's parser loop: the first parser that accepts the raw text
\* and parses it without error ends the loop.
TryParsers(ps, entry) ==
    IF ps = <<>> THEN entry
    ELSE IF CanParse(Head(ps), entry.RawData) /\ ~Parse(Head(ps), entry).err
         THEN Parse(Head(ps), entry).entry
         ELSE TryParsers(Tail(ps), entry)

\* processEntry, "Parse the raw log data if needed".
ParseIfNeeded(entry) ==
    IF entry.RawData # <<>> /\ (entry.Message = <<>> \/ ~entry.hasFields)
    THEN TryParsers(parsers, entry)
    ELSE entry

\* A filter loop that calls every filter and lets every entry pass.
ApplyFiltersNoStop(fs, entry) == [calls |-> Len(fs), pass |-> TRUE]

\* processEntry's filter loop: the filters called, and whether all passed.
ApplyFilters(fs, entry) ==
    LET failing == {i \in 1..Len(fs) : ~LevelFilterApply(fs[i], entry)}
    IN  IF failing = {}
        THEN [calls |-> Len(fs), pass |-> TRUE]
        ELSE [calls |-> CHOOSE i \in failing : \A j \in failing : i <= j,
              pass |-> FALSE]

\* A plugin loop that ends at the first plugin returning an error.
ApplyPluginsStopOnError(ps) ==
    LET failing == {i \in 1..Len(ps) : ps[i].shouldError}
    IN  IF failing = {} THEN Len(ps)
        ELSE CHOOSE i \in failing : \A j \in failing : i <= j

\* processEntry's plugin loop: the plugins called; the error a plugin
\* returns is discarded.
ApplyPlugins(ps) == Len(ps)

\* The calls i..n of one kind, in order.
Calls(kind, n) == [i \in 1..n |-> [call |-> kind, i |-> i]]

\* LogProcessor.processEntry: the entry after parsing, the calls made on it
\* in order, whether Store accepted it, and the counters afterwards.
processEntrySteps(mm, entry) ==
    LET parsed == ParseIfNeeded(entry)
        f == ApplyFilters(pfilters, parsed)
        np == ApplyPlugins(pplugins)
    IN  IF ~f.pass
        THEN [entry |-> parsed,
              calls |-> Calls("filter", f.calls),
              stored |-> FALSE,
              m |-> [mm EXCEPT !.filtered = @ + 1]]
        ELSE [entry |-> parsed,
              calls |-> Calls("filter", f.calls)
                        \o Calls("transform", ptransformers)
                        \o Calls("plugin", np)
                        \o <<[call |-> "store", i |-> 1]>>,
              stored |-> StoreOk(parsed),
              m |-> IF StoreOk(parsed)
                    THEN [mm EXCEPT !.processed = @ + 1]
                    ELSE [mm EXCEPT !.errored = @ + 1]]

\* The entries handed to processEntry.
PipelineEntries ==
    [level : {"", "DEBUG", "info"},
     marshalable : BOOLEAN,
     Message : {<<>>, <<"m">>},
     RawData : {<<>>, <<"{", "j", "}">>, <<"{", "}">>, <<"{", "j">>,
                <<"1", "g">>, <<"p">>},
     hasFields : BOOLEAN]

\* NewLevelFilter(levels, include) as handed to AddFilter.
FilterChoices ==
    {[Levels |-> {"debug"}, IncludeLevels |-> FALSE],
     [Levels |-> {"info"}, IncludeLevels |-> TRUE]}

\* op: "processEntry" once a call was made; m0: the counters before it;
\* filters, transformers, plugins: the lists the call read; input: the entry
\* handed in; entry: the entry after parsing; calls: the calls made on it;
\* stored: Store returned nil.
NoRun == [op |-> "none", m0 |-> Metrics0, filters |-> <<>>,
          transformers |-> 0, plugins |-> <<>>, input |-> <<>>,
          entry |-> <<>>, calls |-> <<>>, stored |-> FALSE]

\* NewProcessor: no filter, transformer or plugin registered.
NewProcessor ==
    /\ pfilters = <<>>
    /\ ptransformers = 0
    /\ pplugins = <<>>
    /\ pstored = <<>>
    /\ run = NoRun

\* LogProcessor.AddFilter
AddFilter(f) ==
    /\ Len(pfilters) < MaxFilters
    /\ pfilters' = Append(pfilters, f)
    /\ UNCHANGED <<ptransformers, pplugins, pstored, run>>
    /\ UNCHANGED <<poolVars, storageVars, collectorVars, moreVars>>

\* LogProcessor.AddTransformer
AddTransformer ==
    /\ ptransformers < MaxTransformers
    /\ ptransformers' = ptransformers + 1
    /\ UNCHANGED <<pfilters, pplugins, pstored, run>>
    /\ UNCHANGED <<poolVars, storageVars, collectorVars, moreVars>>

\* LogProcessor.AddPlugin: a plugin whose ProcessLogEntry returns an error
\* (shouldError) or nil.
AddPlugin(shouldError) ==
    /\ Len(pplugins) < MaxPlugins
    /\ pplugins' = Append(pplugins, [shouldError |-> shouldError])
    /\ UNCHANGED <<pfilters, ptransformers, pstored, run>>
    /\ UNCHANGED <<poolVars, storageVars, collectorVars, moreVars>>

\* A worker runs the job func() { p.processEntry(ctx, entry) }.
ProcessEntry(entry) ==
    /\ m.filtered + m.processed + m.errored < MaxEntries
    /\ LET r == processEntrySteps(m, entry)
       IN  /\ m' = r.m
           /\ pstored' = IF r.stored THEN Append(pstored, r.entry) ELSE pstored
           /\ run' = [op |-> "processEntry", m0 |-> m, filters |-> pfilters,
                      transformers |-> ptransformers, plugins |-> pplugins,
                      input |-> entry, entry |-> r.entry, calls |-> r.calls,
                      stored |-> r.stored]
    /\ UNCHANGED <<pfilters, ptransformers, pplugins>>
    /\ UNCHANGED <<startBudget, stop2Pc, workers, jobs, jobsClosed, wstate, wjob, startCalls,
                   rootDone, stopPc, stopVia, startedAtStop, acceptedAtStop,
                   crashed, procPos, procEnd, accepted, dropped, executed>>
    /\ UNCHANGED <<storageVars, collectorVars, moreVars>>

InitPool ==
    /\ OtherUnitsIdle
    /\ \E n \in 0..MaxWorkersArg : NewPool(n)
    /\ startBudget = MaxStarts
    /\ NewProcessor
    /\ NewFileCollector
    /\ fcFile = "file"
    /\ backend = "none"
    /\ entries = <<>>
    /\ capacity = 0
    /\ files = <<>>
    /\ currentFile = 0
    /\ currentDay = 0
    /\ inMemoryCache = <<>>
    /\ maxCacheSize = 0
    /\ storeLog = <<>>
    /\ closeCalled = FALSE
    /\ restarts = 0
    /\ last = <<>>

NextPool ==
    \/ Start
    \/ RootCancel
    \/ \E n \in BatchSizes : Process(n)
    \/ ProcessSubmit
    \/ \E w \in 1..Len(wstate) : WorkerReceive(w)
    \/ \E w \in 1..Len(wstate) : WorkerFinish(w)
    \/ \E w \in 1..Len(wstate) : WorkerExitCancelled(w)
    \/ \E w \in 1..Len(wstate) : WorkerExitClosed(w)
    \/ StopBegin
    \/ StopDone
    \/ StopDeadline

SpecPool == InitPool /\ [][NextPool]_vars

(***************************************************************************)
(* Strings are sequences of one-character strings, so that substring and   *)
(* case folding are computed as the code computes them.                    *)
(***************************************************************************)

\* unicode.ToLower on the letters the entries use.
LowerChar(c) ==
    CASE c = "A" -> "a"
      [] c = "E" -> "e"
      [] c = "I" -> "i"
      [] c = "W" -> "w"
      [] c = "X" -> "x"
      [] OTHER -> c

\* strings.ToLower
ToLower(str) == [i \in 1..Len(str) |-> LowerChar(str[i])]

\* strings.Contains
Contains(str, sub) ==
    \E i \in 0..(Len(str) - Len(sub)) :
        \A j \in 1..Len(sub) : str[i + j] = sub[j]

\* strings.EqualFold
EqualFold(a, b) ==
    /\ Len(a) = Len(b)
    /\ \A i \in 1..Len(a) : LowerChar(a[i]) = LowerChar(b[i])

(***************************************************************************)
(* Log entries: pkg/models (LogEntry).  A field value is a string          *)
(* ([str |-> ...]) or a number ([num |-> ...]).  Timestamps are ticks; a   *)
(* calendar day has two ticks; tick 0 is the zero time.Time.               *)
(***************************************************************************)

StrVal(x) == [isStr |-> TRUE, str |-> x, num |-> 0]

NumVal(n) == [isStr |-> FALSE, str |-> <<>>, num |-> n]

NoFields == [k \in {} |-> StrVal(<<>>)]

\* The entries handed to Store, by identity (the *models.LogEntry pointer).
Catalog ==
    << [Timestamp |-> 1, Source |-> <<"s">>, Level |-> <<"i">>,
        Message |-> <<"a", "b">>, Fields |-> NoFields, RawData |-> <<"r">>],
       [Timestamp |-> 2, Source |-> <<"s">>, Level |-> <<"W">>,
        Message |-> <<"A">>,
        Fields |-> [k \in {<<"k">>} |-> StrVal(<<"x", "y">>)], RawData |-> <<>>],
       [Timestamp |-> 3, Source |-> <<"t">>, Level |-> <<"i">>,
        Message |-> <<"c">>,
        Fields |-> [k \in {<<"x">>} |-> NumVal(7)], RawData |-> <<>>],
       [Timestamp |-> 3, Source |-> <<"X">>, Level |-> <<"e">>,
        Message |-> <<"b">>,
        Fields |-> [k \in {<<"k">>} |-> StrVal(<<"X">>)], RawData |-> <<"r">>] >>

EntryIds == 1..Len(Catalog)

\* entry.Timestamp.Format("2006-01-02"), as a day number.
Day(ts) == (ts + 1) \div 2

\* time.Parse("2006-01-02", dateStr): midnight of the day.
FileDate(day) == 2 * day - 1

\* json.Unmarshal(json.Marshal(entry)): RawData is tagged json:"-" and is
\* lost; strings stay strings and numbers stay numbers (float64).
DecodeJSON(id) == [Catalog[id] EXCEPT !.RawData = <<>>]

(***************************************************************************)
(* Queries: pkg/models/query.go                                            *)
(***************************************************************************)

\* FilterFields: the (field, value) pairs of Query.FilterFields.
NoQuery == [From |-> 0, To |-> 0, Sources |-> <<>>, Levels |-> <<>>,
            Filter |-> <<>>, FilterFields |-> <<>>, Limit |-> 0]

\* The query for an entry by its source and level, one result.
QueryFor(id) ==
    [NoQuery EXCEPT !.Sources = <<Catalog[id].Source>>,
                    !.Levels = <<Catalog[id].Level>>, !.Limit = 1]

\* The queries issued: NewQueryBuilder() with WithLimit, WithFilter,
\* WithTimeRange, WithSources or WithLevels.
Queries ==
    {NoQuery}
    \cup {[NoQuery EXCEPT !.Limit = l] : l \in 1..MaxLimit}
    \cup {[NoQuery EXCEPT !.Filter = f, !.Limit = l] :
             f \in {<<"a">>, <<"x">>}, l \in 0..1}
    \cup {[NoQuery EXCEPT !.From = 2, !.Limit = l] : l \in 0..1}
    \cup {[NoQuery EXCEPT !.To = 2],
          [NoQuery EXCEPT !.Sources = << <<"s">> >>],
          [NoQuery EXCEPT !.Levels = << <<"I">> >>],
          [NoQuery EXCEPT !.FilterFields =
              << [field |-> <<"k">>, value |-> <<"x">>] >>]}
    \cup {QueryFor(id) : id \in EntryIds}

\* time.Now() at the time of a Query.
NowValues == {4, 9}

\* The time-range, source and level conditions, identical in
\* MemoryStorage.Query, queryCache and queryDisk.
MatchesBase(e, q) ==
    /\ ~(q.From # 0 /\ e.Timestamp < q.From)
    /\ ~(q.To # 0 /\ e.Timestamp > q.To)
    /\ (Len(q.Sources) > 0 =>
           \E i \in 1..Len(q.Sources) : e.Source = q.Sources[i])
    /\ (Len(q.Levels) > 0 =>
           \E i \in 1..Len(q.Levels) : EqualFold(e.Level, q.Levels[i]))

\* MemoryStorage.Query's text filter: case-insensitive, over message,
\* source, level, field keys and string field values.
MemTextMatch(e, f) ==
    \/ Contains(ToLower(e.Message), ToLower(f))
    \/ Contains(ToLower(e.Source), ToLower(f))
    \/ Contains(ToLower(e.Level), ToLower(f))
    \/ \E k \in DOMAIN e.Fields :
          \/ Contains(ToLower(k), ToLower(f))
          \/ /\ e.Fields[k].isStr
             /\ Contains(ToLower(e.Fields[k].str), ToLower(f))

\* queryCache's and queryDisk's text filter: case-sensitive, over the
\* message and the string field values.
DiskTextMatch(e, f) ==
    \/ Contains(e.Message, f)
    \/ \E k \in DOMAIN e.Fields :
          /\ e.Fields[k].isStr
          /\ Contains(e.Fields[k].str, f)

MemMatches(e, q) ==
    /\ MatchesBase(e, q)
    /\ (q.Filter # <<>> => MemTextMatch(e, q.Filter))

DiskMatches(e, q) ==
    /\ MatchesBase(e, q)
    /\ (q.Filter # <<>> => DiskTextMatch(e, q.Filter))

\* The first n elements of a sequence.
Take(seq, n) == SubSeq(seq, 1, IF n < Len(seq) THEN n ELSE Len(seq))

\* The scan loops: append each match, break once Limit results are held.
ScanMem(scanned, q) ==
    LET hit(e) == MemMatches(e, q)
        all == SelectSeq(scanned, hit)
    IN  IF q.Limit > 0 THEN Take(all, q.Limit) ELSE all

ScanDisk(scanned, q) ==
    LET hit(e) == DiskMatches(e, q)
        all == SelectSeq(scanned, hit)
    IN  IF q.Limit > 0 THEN Take(all, q.Limit) ELSE all

IndexPermutations(n) ==
    {f \in [1..n -> 1..n] : \A i, j \in 1..n : f[i] = f[j] => i = j}

\* The result left as the scan produced it.
NoSort(result) == {result}

\* sort.Slice(result, func(i, j) { return result[i].Timestamp.After(
\* result[j].Timestamp) }): some permutation in which no later element is
\* newer than an earlier one (sort.Slice is not stable).
SortByTimestamp(result) ==
    {[i \in 1..Len(result) |-> result[f[i]]] : f \in
        {g \in IndexPermutations(Len(result)) :
            \A i \in 1..(Len(result) - 1) :
                result[g[i]].Timestamp >= result[g[i + 1]].Timestamp}}

(***************************************************************************)
(* The result of the last storage call.                                    *)
(***************************************************************************)

\* op: the call; afterClose: Close had returned before it; err: "" (nil),
\* "panic" or the error; for a Query also the query, time.Now(), the path
\* taken ("memory", "cache", "disk"), the entries the scan went over and the
\* entries returned; for GetSources the sources; for GetStats TotalEntries.
NoCall ==
    [op |-> "none", afterClose |-> FALSE, err |-> "", q |-> NoQuery,
     now |-> 0, path |-> "", scanned |-> <<>>, res |-> <<>>,
     sources |-> {}, total |-> 0]

(***************************************************************************)
(* In-memory backend: MemoryStorage                                        *)
(***************************************************************************)

\* A Store that appends without evicting.
MemoryStoreNoEvict(held, cap, id) ==
    [err |-> "", entries |-> Append(held, id)]

\* A Store that makes room by dropping the newest entry held.
MemoryStoreEvictNewest(held, cap, id) ==
    IF Len(held) >= cap
    THEN IF Len(held) = 0
         THEN [err |-> "panic", entries |-> held]
         ELSE [err |-> "", entries |-> Append(SubSeq(held, 1, Len(held) - 1), id)]
    ELSE [err |-> "", entries |-> Append(held, id)]

\* MemoryStorage.Store on the entries held: at capacity the oldest entry is
\* dropped by m.entries[1:], which panics on an empty slice.
MemoryStore(held, cap, id) ==
    IF Len(held) >= cap
    THEN IF Len(held) = 0
         THEN [err |-> "panic", entries |-> held]
         ELSE [err |-> "", entries |-> Append(Tail(held), id)]
    ELSE [err |-> "", entries |-> Append(held, id)]

MemStore(id) ==
    /\ backend = "memory"
    /\ Len(storeLog) < MaxStores
    /\ LET r == MemoryStore(entries, capacity, id)
       IN  /\ entries' = r.entries
           /\ storeLog' = IF r.err = "" THEN Append(storeLog, id) ELSE storeLog
           /\ last' = [NoCall EXCEPT !.op = "Store", !.afterClose = closeCalled,
                                     !.err = r.err]
    /\ UNCHANGED <<restarts, backend, capacity, files, currentFile, currentDay,
                   inMemoryCache, maxCacheSize, closeCalled>>
    /\ UNCHANGED nonStorageVars

\* MemoryStorage.Query
MemQuery(q) ==
    /\ backend = "memory"
    /\ LET scanned == [i \in 1..Len(entries) |-> Catalog[entries[i]]]
       IN  \E r \in SortByTimestamp(ScanMem(scanned, q)) :
              last' = [NoCall EXCEPT !.op = "Query", !.afterClose = closeCalled,
                                     !.q = q, !.path = "memory",
                                     !.scanned = scanned, !.res = r]
    /\ UNCHANGED <<restarts, backend, entries, capacity, files, currentFile, currentDay,
                   inMemoryCache, maxCacheSize, storeLog, closeCalled>>
    /\ UNCHANGED nonStorageVars

\* MemoryStorage.GetSources
MemGetSources ==
    /\ backend = "memory"
    /\ last' = [NoCall EXCEPT !.op = "GetSources", !.afterClose = closeCalled,
                   !.sources = {Catalog[entries[i]].Source : i \in 1..Len(entries)}]
    /\ UNCHANGED <<restarts, backend, entries, capacity, files, currentFile, currentDay,
                   inMemoryCache, maxCacheSize, storeLog, closeCalled>>
    /\ UNCHANGED nonStorageVars

\* MemoryStorage.GetStats
MemGetStats ==
    /\ backend = "memory"
    /\ last' = [NoCall EXCEPT !.op = "GetStats", !.afterClose = closeCalled,
                              !.total = Len(entries)]
    /\ UNCHANGED <<restarts, backend, entries, capacity, files, currentFile, currentDay,
                   inMemoryCache, maxCacheSize, storeLog, closeCalled>>
    /\ UNCHANGED nonStorageVars

\* MemoryStorage.Close: "m.entries = nil".
MemClose ==
    /\ backend = "memory"
    /\ entries' = <<>>
    /\ closeCalled' = TRUE
    /\ last' = [NoCall EXCEPT !.op = "Close", !.afterClose = closeCalled]
    /\ UNCHANGED <<restarts, backend, capacity, files, currentFile, currentDay,
                   inMemoryCache, maxCacheSize, storeLog>>
    /\ UNCHANGED nonStorageVars

(***************************************************************************)
(* On-disk backend: DiskStorage.  A day file is a sequence of tokens: the  *)
(* one-byte tokens "[", "]", "," and "\n", the JSON text of an entry       *)
(* ("e1".."e4"), or "cut", a JSON text that has lost bytes.                *)
(***************************************************************************)

\* json.Marshal(entry)
EntryJSON(id) == <<"e1", "e2", "e3", "e4">>[id]

IsEntryJSON(tok) == \E id \in EntryIds : EntryJSON(id) = tok

EntryOfJSON(tok) == CHOOSE id \in EntryIds : EntryJSON(id) = tok

Days == {Day(Catalog[id].Timestamp) : id \in EntryIds}

\* Bytes of a token: the JSON text of a LogEntry has at least the 60 bytes
\* of its timestamp, source and message members.
ByteLen(tok) == IF tok \in {"[", "]", ",", "\n"} THEN 1 ELSE 60

RECURSIVE ByteSize(_)
\* info.Size()
ByteSize(content) ==
    IF content = <<>> THEN 0
    ELSE ByteLen(Head(content)) + ByteSize(Tail(content))

RECURSIVE DropBytes(_, _)
\* file.Truncate(info.Size() - n)
DropBytes(content, n) ==
    IF n = 0 \/ content = <<>> THEN content
    ELSE LET front == SubSeq(content, 1, Len(content) - 1)
             tok == content[Len(content)]
         IN  IF ByteLen(tok) = 1 THEN DropBytes(front, n - 1)
             ELSE Append(front, "cut")

\* DiskStorage.Store, "if d.currentFile == nil": the day file is opened; a
\* new file gets the header, an existing one of more than 2 bytes loses its
\* last 2 bytes and gets ",\n".  <<>> stands for a file that does not exist.
OpenDayFile(content) ==
    IF content = <<>>
    THEN <<"[", "\n">>
    ELSE IF ByteSize(content) > 2
         THEN DropBytes(content, 2) \o <<",", "\n">>
         ELSE content

\* DiskStorage.Store: the entry's JSON and the footer are appended.
WriteEntry(content, id) == content \o <<EntryJSON(id), "\n", "]">>

\* DiskStorage.updateCache
updateCache(cache, id) ==
    LET c == Append(cache, id)
    IN  IF Len(c) > maxCacheSize
        THEN SubSeq(c, Len(c) - maxCacheSize + 1, Len(c))
        ELSE c

\* DiskStorage.Store
DiskStore(id) ==
    /\ backend = "disk"
    /\ Len(storeLog) < MaxStores
    /\ LET day == Day(Catalog[id].Timestamp)
           \* "if d.currentFile != nil && d.currentDay != day": closed
           open == IF currentFile # 0 /\ currentDay # day THEN 0 ELSE currentFile
           content == IF open = 0 THEN OpenDayFile(files[day]) ELSE files[day]
       IN  /\ files' = [files EXCEPT ![day] = WriteEntry(content, id)]
           /\ currentFile' = day
           /\ currentDay' = day
    /\ inMemoryCache' = updateCache(inMemoryCache, id)
    /\ storeLog' = Append(storeLog, id)
    /\ last' = [NoCall EXCEPT !.op = "Store", !.afterClose = closeCalled]
    /\ UNCHANGED <<restarts, backend, entries, capacity, maxCacheSize, closeCalled>>
    /\ UNCHANGED nonStorageVars

\* json.Unmarshal(data, &entries) in loadEntriesFromFile: the tokens must be
\* "[", entries separated by ",", "]", with nothing but white space between
\* and after them.
ParseArray(content) ==
    LET notSpace(tok) == tok # "\n"
        t == SelectSeq(content, notSpace)
        n == Len(t)
        ok == /\ n >= 2
              /\ t[1] = "["
              /\ t[n] = "]"
              /\ (n > 2 => n % 2 = 1)
              /\ \A i \in 2..(n - 1) :
                    IF i % 2 = 0 THEN IsEntryJSON(t[i]) ELSE t[i] = ","
    IN  IF ok
        THEN [ok |-> TRUE,
              ids |-> [i \in 1..((n - 1) \div 2) |-> EntryOfJSON(t[2 * i])]]
        ELSE [ok |-> FALSE, ids |-> <<>>]

\* DiskStorage.loadEntriesFromFile
loadEntriesFromFile(day) ==
    LET p == ParseArray(files[day])
    IN  [ok |-> p.ok,
         entries |-> [i \in 1..Len(p.ids) |-> DecodeJSON(p.ids[i])]]

RECURSIVE AscendingDays(_, _)
\* filepath.Glob: the files that exist, in name (date) order.
AscendingDays(d, keep) ==
    IF \A x \in keep : x < d THEN <<>>
    ELSE (IF d \in keep THEN <<d>> ELSE <<>>) \o AscendingDays(d + 1, keep)

\* DiskStorage.getRelevantFiles: AddDate(0, 0, 1) is two ticks.
getRelevantFiles(q) ==
    LET keep == {d \in Days :
                    /\ files[d] # <<>>
                    /\ \/ (q.From = 0 /\ q.To = 0)
                       \/ ~ \/ (q.From # 0 /\ FileDate(d) < q.From - 2)
                            \/ (q.To # 0 /\ FileDate(d) > q.To + 2)}
    IN  AscendingDays(1, keep)

\* DiskStorage.canUseCache: 24 hours are two ticks.
canUseCache(q, now) ==
    /\ q.From = 0
    /\ Len(inMemoryCache) > 0
    /\ Catalog[inMemoryCache[1]].Timestamp > now - 2

RECURSIVE ScanFiles(_, _, _)
\* queryDisk's loop over the files: a file that does not parse fails the
\* query; the loop stops once Limit results are held.
ScanFiles(ds, acc, q) ==
    IF ds = <<>> THEN [err |-> "", res |-> acc]
    ELSE LET f == loadEntriesFromFile(Head(ds))
             more == acc \o ScanDisk(f.entries, [q EXCEPT !.Limit = 0])
             acc2 == IF q.Limit > 0 THEN Take(more, q.Limit) ELSE more
         IN  IF ~f.ok THEN [err |-> "parse", res |-> <<>>]
             ELSE IF q.Limit > 0 /\ Len(acc2) >= q.Limit
                  THEN [err |-> "", res |-> acc2]
                  ELSE ScanFiles(Tail(ds), acc2, q)

RECURSIVE EntriesOfFiles(_)
EntriesOfFiles(ds) ==
    IF ds = <<>> THEN <<>>
    ELSE loadEntriesFromFile(Head(ds)).entries \o EntriesOfFiles(Tail(ds))

\* DiskStorage.queryCache
queryCache(q) ==
    LET scanned == [i \in 1..Len(inMemoryCache) |-> Catalog[inMemoryCache[i]]]
    IN  {[NoCall EXCEPT !.op = "Query", !.afterClose = closeCalled, !.q = q,
                        !.path = "cache", !.scanned = scanned, !.res = r] :
            r \in SortByTimestamp(ScanDisk(scanned, q))}

\* DiskStorage.queryDisk
queryDisk(q) ==
    LET ds == getRelevantFiles(q)
        got == ScanFiles(ds, <<>>, q)
    IN  IF got.err # ""
        THEN {[NoCall EXCEPT !.op = "Query", !.afterClose = closeCalled,
                             !.q = q, !.path = "disk", !.err = got.err]}
        ELSE {[NoCall EXCEPT !.op = "Query", !.afterClose = closeCalled,
                             !.q = q, !.path = "disk",
                             !.scanned = EntriesOfFiles(ds),
                             !.res = IF q.Limit > 0 THEN Take(r, q.Limit) ELSE r] :
                 r \in SortByTimestamp(got.res)}

\* DiskStorage.Query
DiskQuery(q, now) ==
    /\ backend = "disk"
    /\ \E r \in (IF canUseCache(q, now) THEN queryCache(q) ELSE queryDisk(q)) :
          last' = [r EXCEPT !.now = now]
    /\ UNCHANGED <<restarts, backend, entries, capacity, files, currentFile, currentDay,
                   inMemoryCache, maxCacheSize, storeLog, closeCalled>>
    /\ UNCHANGED nonStorageVars

\* DiskStorage.GetSources: the cache's sources; with none, the sources of the
\* day files that parse (at most 5 files are read, which covers Days).
DiskGetSources ==
    /\ backend = "disk"
    /\ LET cached == {Catalog[inMemoryCache[i]].Source : i \in 1..Len(inMemoryCache)}
           ondisk == {e.Source : e \in
                        UNION {{loadEntriesFromFile(d).entries[i] :
                                  i \in 1..Len(loadEntriesFromFile(d).entries)} :
                               d \in {x \in Days : files[x] # <<>>}}}
       IN  last' = [NoCall EXCEPT !.op = "GetSources", !.afterClose = closeCalled,
                       !.sources = IF cached # {} THEN cached ELSE ondisk]
    /\ UNCHANGED <<restarts, backend, entries, capacity, files, currentFile, currentDay,
                   inMemoryCache, maxCacheSize, storeLog, closeCalled>>
    /\ UNCHANGED nonStorageVars

RECURSIVE CountEntries(_)
CountEntries(ds) ==
    IF ds = <<>> THEN 0
    ELSE Len(loadEntriesFromFile(Head(ds)).entries) + CountEntries(Tail(ds))

\* DiskStorage.GetStats: TotalEntries sums the files that parse.
DiskGetStats ==
    /\ backend = "disk"
    /\ LET exists == {d \in Days : files[d] # <<>>}
       IN  last' = [NoCall EXCEPT !.op = "GetStats", !.afterClose = closeCalled,
                       !.total = CountEntries(AscendingDays(1, exists))]
    /\ UNCHANGED <<restarts, backend, entries, capacity, files, currentFile, currentDay,
                   inMemoryCache, maxCacheSize, storeLog, closeCalled>>
    /\ UNCHANGED nonStorageVars

\* DiskStorage.Close
DiskClose ==
    /\ backend = "disk"
    /\ currentFile' = 0
    /\ closeCalled' = TRUE
    /\ last' = [NoCall EXCEPT !.op = "Close", !.afterClose = closeCalled]
    /\ UNCHANGED <<restarts, backend, entries, capacity, files, currentDay,
                   inMemoryCache, maxCacheSize, storeLog>>
    /\ UNCHANGED nonStorageVars

\* The process dies inside DiskStorage.Store, after the day file was opened
\* (point "opened") or after the entry's JSON was written and before the
\* footer (point "json"), and is started again: NewDiskStorage on the same
\* directory, with no file open and an empty cache.
DiskCrash(id, point) ==
    /\ backend = "disk"
    /\ restarts < MaxCrashes
    /\ Len(storeLog) < MaxStores
    /\ LET day == Day(Catalog[id].Timestamp)
           open == IF currentFile # 0 /\ currentDay # day THEN 0 ELSE currentFile
           content == IF open = 0 THEN OpenDayFile(files[day]) ELSE files[day]
       IN  files' = [files EXCEPT ![day] =
                        IF point = "json" THEN Append(content, EntryJSON(id))
                        ELSE content]
    /\ currentFile' = 0
    /\ currentDay' = 0
    /\ inMemoryCache' = <<>>
    /\ closeCalled' = FALSE
    /\ restarts' = restarts + 1
    /\ last' = [NoCall EXCEPT !.op = "Crash"]
    /\ UNCHANGED <<backend, entries, capacity, maxCacheSize, storeLog>>
    /\ UNCHANGED nonStorageVars

\* NewMemoryStorage().WithCapacity(c), or NewDiskStorage(path) on an empty
\* directory followed by WithMaxCacheSize(n); the pool is not used.
InitStorage ==
    /\ OtherUnitsIdle
    /\ NewPool(0)
    /\ startBudget = MaxStarts
    /\ NewProcessor
    /\ NewFileCollector
    /\ fcFile = "file"
    /\ \/ /\ backend = "memory"
          /\ capacity \in 0..MaxCapacity
          /\ maxCacheSize = 0
       \/ /\ backend = "disk"
          /\ capacity = 0
          /\ maxCacheSize \in 1..MaxCacheSize
    /\ entries = <<>>
    /\ files = [d \in Days |-> <<>>]
    /\ currentFile = 0
    /\ currentDay = 0
    /\ inMemoryCache = <<>>
    /\ storeLog = <<>>
    /\ closeCalled = FALSE
    /\ restarts = 0
    /\ last = NoCall

NextStorage ==
    \/ \E id \in EntryIds : MemStore(id)
    \/ \E q \in Queries : MemQuery(q)
    \/ MemGetSources
    \/ MemGetStats
    \/ MemClose
    \/ \E id \in EntryIds : DiskStore(id)
    \/ \E q \in Queries, now \in NowValues : DiskQuery(q, now)
    \/ DiskGetSources
    \/ DiskGetStats
    \/ DiskClose

SpecStorage == InitStorage /\ [][NextStorage]_vars

(***************************************************************************)
(* The pool under any caller: Start and Stop called more than once, jobs   *)
(* submitted one at a time.                                                *)
(***************************************************************************)

InitLifecycle ==
    /\ OtherUnitsIdle
    /\ \E n \in 0..MaxWorkersArg : NewPool(n)
    /\ startBudget = MaxStarts + 1
    /\ NewProcessor
    /\ NewFileCollector
    /\ fcFile = "file"
    /\ backend = "none"
    /\ entries = <<>>
    /\ capacity = 0
    /\ files = <<>>
    /\ currentFile = 0
    /\ currentDay = 0
    /\ inMemoryCache = <<>>
    /\ maxCacheSize = 0
    /\ storeLog = <<>>
    /\ closeCalled = FALSE
    /\ restarts = 0
    /\ last = <<>>

NextLifecycle ==
    \/ Start
    \/ RootCancel
    \/ Process(1)
    \/ ProcessSubmit
    \/ \E w \in 1..Len(wstate) : WorkerReceive(w)
    \/ \E w \in 1..Len(wstate) : WorkerFinish(w)
    \/ \E w \in 1..Len(wstate) : WorkerExitCancelled(w)
    \/ \E w \in 1..Len(wstate) : WorkerExitClosed(w)
    \/ StopBegin
    \/ StopDone
    \/ StopDeadline
    \/ StopAgainCall
    \/ StopAgainReturn

SpecLifecycle == InitLifecycle /\ [][NextLifecycle]_vars

(***************************************************************************)
(* One file collector, its ticker, the file's writer and the root context. *)
(***************************************************************************)

InitCollector ==
    /\ OtherUnitsIdle
    /\ NewPool(0)
    /\ startBudget = MaxStarts
    /\ NewProcessor
    /\ NewFileCollector
    /\ fcFile \in {"file", "dir", "missing"}
    /\ backend = "none"
    /\ entries = <<>>
    /\ capacity = 0
    /\ files = <<>>
    /\ currentFile = 0
    /\ currentDay = 0
    /\ inMemoryCache = <<>>
    /\ maxCacheSize = 0
    /\ storeLog = <<>>
    /\ closeCalled = FALSE
    /\ restarts = 0
    /\ last = <<>>

NextCollector ==
    \/ FcStart
    \/ Tick
    \/ \E k \in {1, BatchSize} : AppendLines(k)
    \/ RootCancel
    \/ SelectDone
    \/ SelectTick
    \/ ReadLines
    \/ ReadError

SpecCollector == InitCollector /\ [][NextCollector]_vars

(***************************************************************************)
(* The on-disk backend across a crash and restart of the process.          *)
(***************************************************************************)

InitRecovery ==
    /\ OtherUnitsIdle
    /\ NewPool(0)
    /\ startBudget = MaxStarts
    /\ NewProcessor
    /\ NewFileCollector
    /\ fcFile = "file"
    /\ backend = "disk"
    /\ capacity = 0
    /\ maxCacheSize \in 1..MaxCacheSize
    /\ entries = <<>>
    /\ files = [d \in Days |-> <<>>]
    /\ currentFile = 0
    /\ currentDay = 0
    /\ inMemoryCache = <<>>
    /\ storeLog = <<>>
    /\ closeCalled = FALSE
    /\ restarts = 0
    /\ last = NoCall

NextRecovery ==
    \/ \E id \in EntryIds : DiskStore(id)
    \/ \E id \in EntryIds, point \in {"opened", "json"} : DiskCrash(id, point)
    \/ \E now \in NowValues : DiskQuery(NoQuery, now)
    \/ DiskGetStats
    \/ DiskClose

SpecRecovery == InitRecovery /\ [][NextRecovery]_vars

(***************************************************************************)
(* The pipeline on its own: registrations and processEntry calls.          *)
(***************************************************************************)

InitPipeline ==
    /\ OtherUnitsIdle
    /\ NewPool(0)
    /\ startBudget = MaxStarts
    /\ NewProcessor
    /\ NewFileCollector
    /\ fcFile = "file"
    /\ backend = "none"
    /\ entries = <<>>
    /\ capacity = 0
    /\ files = <<>>
    /\ currentFile = 0
    /\ currentDay = 0
    /\ inMemoryCache = <<>>
    /\ maxCacheSize = 0
    /\ storeLog = <<>>
    /\ closeCalled = FALSE
    /\ restarts = 0
    /\ last = <<>>

NextPipeline ==
    \/ \E f \in FilterChoices : AddFilter(f)
    \/ AddTransformer
    \/ \E e \in BOOLEAN : AddPlugin(e)
    \/ \E entry \in PipelineEntries : ProcessEntry(entry)

SpecPipeline == InitPipeline /\ [][NextPipeline]_vars

(***************************************************************************)
(* Claims about the pool and the pipeline counters (SpecPool).             *)
(***************************************************************************)

\* The pool has drained: Process has handed over its whole batch, the job
\* queue is empty and no worker is running a job.
PoolDrained ==
    /\ ~crashed
    /\ procPos = procEnd
    /\ jobs = <<>>
    /\ \A w \in 1..Len(wstate) : wstate[w] # "running"

\* C1: once the pool has drained, every entry received by Process is counted
\* in exactly one of processed, filtered, errored:
\* processed + filtered + errored = N.
C1_CountersSumToBatch ==
    PoolDrained => m.processed + m.filtered + m.errored = m.received

\* C2: Submit on an open job channel never blocks: with the queue at
\* workers*100 jobs the step leaves the queue as it is, records the job as
\* dropped and adds one to the error counter; below that the job is appended.
\* The queue never holds more than workers*100 jobs and a dropped job is
\* never queued, run or executed.
C2_SubmitStep ==
    /\ Len(jobs) <= workers * QueueFactor
    /\ Len(jobs') <= workers' * QueueFactor
    /\ \A j \in dropped' :
          /\ j \notin executed'
          /\ \A i \in 1..Len(jobs') : jobs'[i] # j
          /\ \A w \in 1..Len(wjob') : wjob'[w] # j
    /\ (procPos' = procPos + 1 /\ ~jobsClosed) =>
          IF Len(jobs) = workers * QueueFactor
          THEN /\ jobs' = jobs
               /\ dropped' = dropped \cup {procPos + 1}
               /\ accepted' = accepted
               /\ m'.workItemsErrored = m.workItemsErrored + 1
          ELSE /\ jobs' = Append(jobs, procPos + 1)
               /\ dropped' = dropped
               /\ m'.workItemsErrored = m.workItemsErrored

C3_StopReturns ==
    /\ stopPc = "waiting"
    /\ stopPc' = "returned"
    /\ stopVia' = "done"
    /\ ~rootDone'

\* C3 as stated: when Stop returns because the workers finished, and the
\* root context was not cancelled, every job accepted before the Stop call
\* has been executed and every worker has exited.
C3_StopDrains ==
    [][C3_StopReturns =>
          /\ acceptedAtStop' \subseteq executed'
          /\ WaitGroupZero']_vars

\* C3 amended: the same, for a pool on which Start was called before Stop;
\* no accepted job is left in the queue.
C3_StopDrainsStartedPool ==
    [][(C3_StopReturns /\ startedAtStop) =>
          /\ acceptedAtStop' \subseteq executed'
          /\ accepted' \subseteq executed'
          /\ jobs' = <<>>
          /\ Len(wstate') > 0
          /\ WaitGroupZero']_vars

\* C3's case: Stop returned on a started pool that had accepted jobs.
C3_Witness ==
    /\ stopPc = "returned"
    /\ stopVia = "done"
    /\ ~rootDone
    /\ startedAtStop
    /\ Cardinality(acceptedAtStop) >= 2
    /\ acceptedAtStop \subseteq executed

\* C4: Submit returns normally in every pool state (it never panics).
C4_SubmitNeverPanics == ~crashed

(***************************************************************************)
(* Claims about the storage backends (SpecStorage).                        *)
(***************************************************************************)

\* C5: on the in-memory backend configured with capacity c, the number of
\* entries held never exceeds c, whatever Store calls were made.
C5_RingBounded == backend = "memory" => Len(entries) <= capacity

\* C5's case: more Stores have succeeded than the capacity, and the backend
\* holds exactly its capacity.
C5_Witness ==
    /\ backend = "memory"
    /\ capacity >= 1
    /\ last.op = "Store"
    /\ last.err = ""
    /\ Len(storeLog) > capacity
    /\ Len(entries) = capacity

\* The entries stored for a day, in store order.
StoredForDay(d) ==
    LET ofDay(id) == Day(Catalog[id].Timestamp) = d
    IN  SelectSeq(storeLog, ofDay)

\* C6: on the on-disk backend, after every successful Store each day file is
\* a well-formed JSON array whose elements are exactly the entries stored
\* for that day, in store order.
C6_DayFilesWellFormed ==
    (backend = "disk" /\ last.op = "Store" /\ last.err = "") =>
        \A d \in Days :
            IF files[d] = <<>>
            THEN StoredForDay(d) = <<>>
            ELSE /\ ParseArray(files[d]).ok
                 /\ ParseArray(files[d]).ids = StoredForDay(d)

\* C7: Close is final on both backends: a Store, Query, GetSources or
\* GetStats made after Close has returned fails with a Closed error.
C7_CloseIsFinal ==
    (last.afterClose /\ last.op \in {"Store", "Query", "GetSources", "GetStats"})
        => last.err = "Closed"

\* The timestamps of a list of entries.
Timestamps(list) == [i \in 1..Len(list) |-> list[i].Timestamp]

\* The entries a Query went over that satisfy the backend's own conditions.
AllMatches ==
    LET hit(e) == IF last.path = "memory" THEN MemMatches(e, last.q)
                  ELSE DiskMatches(e, last.q)
    IN  SelectSeq(last.scanned, hit)

\* C8: Query sorts before it truncates: with limit k > 0 the result is the
\* first k of all matching entries sorted by timestamp descending, i.e. the
\* k newest matches, whatever the order the entries were stored in.
C8_SortBeforeTruncate ==
    (last.op = "Query" /\ last.err = "" /\ last.q.Limit > 0) =>
        \E s \in SortByTimestamp(AllMatches) :
            Timestamps(last.res) = Timestamps(Take(s, last.q.Limit))

\* C9: the result of Query (default sort: timestamp, descending) is
\* non-increasing in timestamp: no returned entry is older than the one
\* returned after it.
C9_NewestFirst ==
    last.op = "Query" =>
        \A i \in 1..(Len(last.res) - 1) :
            last.res[i].Timestamp >= last.res[i + 1].Timestamp

\* C9's case: a Query went over entries held oldest first and returned at
\* least two of them, of different age.
C9_Witness ==
    /\ last.op = "Query"
    /\ last.err = ""
    /\ Len(last.res) >= 2
    /\ last.res[1].Timestamp > last.res[Len(last.res)].Timestamp
    /\ \E i, j \in 1..Len(last.scanned) :
          /\ i < j
          /\ last.scanned[i] = last.res[Len(last.res)]
          /\ last.scanned[j] = last.res[1]

\* f is a case-insensitive substring of the entry's message, source, level,
\* a field key or a string-valued field value.
MentionsFolded(e, f) ==
    LET in(str) == Contains(ToLower(str), ToLower(f))
    IN  \/ in(e.Message)
        \/ in(e.Source)
        \/ in(e.Level)
        \/ \E k \in DOMAIN e.Fields : in(k)
        \/ \E k \in DOMAIN e.Fields : e.Fields[k].isStr /\ in(e.Fields[k].str)

\* C10: on both backends a query with text filter F (and no limit) returns
\* an entry if and only if the entry passes the other conditions and F is a
\* case-insensitive substring of its message, source, level, a field key or
\* a string-valued field value.
C10_FilterCaseInsensitive ==
    (last.op = "Query" /\ last.err = "" /\ last.q.Filter # <<>>
        /\ last.q.Limit = 0) =>
        {last.res[i] : i \in 1..Len(last.res)} =
            {e \in {last.scanned[i] : i \in 1..Len(last.scanned)} :
                MatchesBase(e, last.q) /\ MentionsFolded(e, last.q.Filter)}


\* The value of a named field of an entry is a string that contains sub.
FieldContains(e, field, sub) ==
    /\ field \in DOMAIN e.Fields
    /\ e.Fields[field].isStr
    /\ Contains(e.Fields[field].str, sub)

\* C11: Query applies filter_fields: an entry is returned only if, for every
\* (field, substring) pair of the query, the entry has that field and its
\* value contains the substring.
C11_FilterFieldsApplied ==
    (last.op = "Query" /\ last.err = "") =>
        \A i \in 1..Len(last.res) :
            \A p \in 1..Len(last.q.FilterFields) :
                FieldContains(last.res[i], last.q.FilterFields[p].field,
                              last.q.FilterFields[p].value)

\* The entries the storage holds: the in-memory list, or on disk everything
\* stored (nothing is ever deleted from the day files).
Held == IF backend = "memory" THEN entries ELSE storeLog

\* Two entries agree in timestamp, source, level, message and fields.
SameButRaw(a, b) == [a EXCEPT !.RawData = <<>>] = [b EXCEPT !.RawData = <<>>]

\* C12: for every entry E held by the storage, the query {limit=1,
\* sources=[E.source], levels=[E.level]} returns exactly one entry, equal
\* to E in timestamp, source, level, message and fields.
C12_StoredEntryFound ==
    \A h \in 1..Len(Held) :
        (last.op = "Query" /\ last.q = QueryFor(Held[h])) =>
            /\ last.err = ""
            /\ Len(last.res) = 1
            /\ SameButRaw(last.res[1], Catalog[Held[h]])


(***************************************************************************)
(* Claims about one entry in the pipeline (SpecPipeline).                  *)
(***************************************************************************)

\* The filters of the last processEntry call that reject its entry.
RejectingFilters ==
    {i \in 1..Len(run.filters) : ~LevelFilterApply(run.filters[i], run.entry)}

FirstRejecting ==
    CHOOSE i \in RejectingFilters : \A j \in RejectingFilters : i <= j

\* The calls of one kind among the calls of the last processEntry call.
CallsOf(kind) ==
    LET is(c) == c.call = kind
    IN  SelectSeq(run.calls, is)

C14_StoredMessageNonEmpty ==
    (run.op = "processEntry" /\ run.stored /\ run.input.RawData # <<>>) =>
        run.entry.Message # <<>>

\* C15: a plugin error does not stop the pipeline: on an entry that passes
\* the filters every plugin is called, in registration order, whatever the
\* earlier plugins returned, then Store is called, and the entry counts as
\* processed when Store succeeds.
C15_PluginErrorContinues ==
    (run.op = "processEntry" /\ RejectingFilters = {}) =>
        /\ CallsOf("plugin") = Calls("plugin", Len(run.plugins))
        /\ run.calls[Len(run.calls)] = [call |-> "store", i |-> 1]
        /\ Len(CallsOf("store")) = 1
        /\ run.stored = StoreOk(run.entry)
        /\ (run.stored => m.processed = run.m0.processed + 1)

\* C15's case: the first of two plugins returns an error and the entry is
\* stored.
C15_Witness ==
    /\ run.op = "processEntry"
    /\ Len(run.plugins) = 2
    /\ run.plugins[1].shouldError
    /\ Len(CallsOf("plugin")) = 2
    /\ run.stored
    /\ m.processed = 1


(***************************************************************************)
(* Claims about the on-disk backend across a crash (SpecRecovery).         *)
(***************************************************************************)

\* C16: after an append was interrupted, the next open of the day file makes
\* it a well-formed JSON array again: the following Store or read succeeds,
\* every day file parses, and no entry of a completed Store is missing.
C16_CrashRecovery ==
    (backend = "disk" /\ restarts > 0 /\ last.op \in {"Store", "Query"}) =>
        /\ last.err = ""
        /\ last.op = "Store" =>
              \A d \in Days :
                  files[d] # <<>> =>
                      /\ ParseArray(files[d]).ok
                      /\ \A i \in 1..Len(StoredForDay(d)) :
                            \E j \in 1..Len(ParseArray(files[d]).ids) :
                                ParseArray(files[d]).ids[j] = StoredForDay(d)[i]


(***************************************************************************)
(* Claims about Start and Stop under any caller (SpecLifecycle).           *)
(***************************************************************************)

\* C17: Stop never leaks workers: when Stop returns, because the workers
\* finished or because the deadline expired, no worker goroutine is still
\* running, and no job is executed after Stop has returned.
C17_StopLeaksNoWorker ==
    [][/\ (stopPc = "waiting" /\ stopPc' = "returned") => WaitGroupZero'
       /\ (stopPc = "returned" /\ startCalls' = startCalls) =>
              executed' = executed]_vars

\* C18: Start is idempotent after the first call: after one or more Start
\* calls on a pool of n workers exactly n worker loops have been spawned.
C18_StartIdempotent == startCalls >= 1 => Len(wstate) = workers

\* C19: a Stop call after the first, also one made while the first is still
\* waiting, does not close the job channel again, does not panic and leaves
\* the pool's state as it is.
C19_StopIdempotent ==
    [][stop2Pc' # stop2Pc =>
          /\ ~crashed'
          /\ UNCHANGED <<workers, jobs, jobsClosed, wstate, wjob, startCalls,
                         rootDone, stopPc, stopVia, procPos, procEnd, m,
                         accepted, dropped, executed>>]_vars

\* C19's case: a second Stop call was made while the first was waiting for
\* the workers of a started pool, and has returned.
C19_Witness ==
    /\ stop2Pc = "returned"
    /\ startCalls > 0
    /\ jobsClosed
    /\ ~crashed
    /\ stopPc = "returned"


(***************************************************************************)
(* Claims about the file collector (SpecCollector).                        *)
(***************************************************************************)

\* C20: once the cancellation signal has fired, FileCollector.Start returns
\* at the latest after one more poll tick: it takes at most one tick from
\* the ticker after the signal.
C20_ReturnsWithinOneTick == ticksAfterDone <= 1

(***************************************************************************)
(* HTTP collector: internal/collector/http.go                              *)
(***************************************************************************)

\* Poll ticks of one run of HTTPCollector.Start.
MaxPolls == 2

\* An answer of the endpoint to one request: client.Do's error, the status
\* code, an error of io.ReadAll, the Content-Type, the body and what
\* processor.Process returns for the entries of this body.  A JSON body is an
\* array (its elements: "entry" for an object with source and timestamp,
\* "bare" for an object without them, "null" for null), one object, the
\* literal null, or something that is no log entry; a text body is its lines
\* ("" is a blank line).
Response(doErr, status, readErr, json, body, processErr) ==
    [doErr |-> doErr, status |-> status, readErr |-> readErr, json |-> json,
     body |-> body, processErr |-> processErr]

JSONBodies ==
    { [kind |-> "array", items |-> <<"entry">>],
      [kind |-> "array", items |-> <<"bare", "entry">>],
      [kind |-> "array", items |-> <<"entry", "null">>],
      [kind |-> "array", items |-> <<>>],
      [kind |-> "object"],
      [kind |-> "null"],
      [kind |-> "garbage"] }

TextBodies ==
    { [kind |-> "text", lines |-> <<>>],
      [kind |-> "text", lines |-> <<"a", "", "b">>] }

Responses ==
    {Response(TRUE, 0, FALSE, FALSE, [kind |-> "none"], FALSE)}
    \cup {Response(FALSE, st, FALSE, FALSE, [kind |-> "none"], FALSE) :
             st \in {199, 300, 500}}
    \cup {Response(FALSE, 200, TRUE, FALSE, [kind |-> "none"], FALSE)}
    \cup {Response(FALSE, st, FALSE, TRUE, b, pe) :
             st \in {200, 299}, b \in JSONBodies, pe \in BOOLEAN}
    \cup {Response(FALSE, 200, FALSE, FALSE, b, pe) :
             b \in TextBodies, pe \in BOOLEAN}

\* hc.processor.Process(ctx, entries): its error, if any.
ProcessResult(r) == IF r.processErr THEN "process error" ELSE "nil"

\* processJSONResponse: a non-empty array of entries, else one entry, else
\* one raw entry.  The loop over the array reads entry.Source of every
\* element; json.Unmarshal decodes a null element to a nil *LogEntry.
processJSONResponse(r) ==
    IF r.body.kind = "array" /\ Len(r.body.items) > 0
    THEN IF \E i \in 1..Len(r.body.items) : r.body.items[i] = "null"
         THEN "panic"
         ELSE ProcessResult(r)
    ELSE ProcessResult(r)

\* processTextResponse: one entry per line that is not blank; Process is not
\* called when there is none.
processTextResponse(r) ==
    IF \E i \in 1..Len(r.body.lines) : r.body.lines[i] # ""
    THEN ProcessResult(r)
    ELSE "nil"

\* hc.Source(): the URL.
HcSource == <<"u">>

\* time.Now() during a fetch.
HcNow == 9

\* The LogEntry json.Unmarshal makes of an object: "entry" carries a source
\* and a timestamp, "bare" only a message; the literal null leaves the
\* LogEntry as it was, zero.
DecodedEntry(item) ==
    CASE item = "entry" -> [Timestamp |-> 1, Source |-> <<"s">>,
                            Message |-> <<"m">>, RawData |-> <<>>]
      [] item = "bare" -> [Timestamp |-> 0, Source |-> <<>>,
                           Message |-> <<"m">>, RawData |-> <<>>]
      [] OTHER -> [Timestamp |-> 0, Source |-> <<>>, Message |-> <<>>,
                   RawData |-> <<>>]

\* "if entry.Source == "" {...}; if entry.Timestamp.IsZero() {...}"
WithDefaults(e) ==
    [e EXCEPT !.Source = IF @ = <<>> THEN HcSource ELSE @,
              !.Timestamp = IF @ = 0 THEN HcNow ELSE @]

\* string(data)
BodyText(b) ==
    CASE b.kind = "array" -> <<"[">> \o b.items \o <<"]">>
      [] b.kind = "object" -> <<"{", "}">>
      [] b.kind = "null" -> <<"null">>
      [] OTHER -> <<"g">>

\* processJSONResponse: the entries it hands to Process.  json.Unmarshal
\* into []*LogEntry succeeds on an array of objects and on null; the entries
\* are used when there is at least one.  Otherwise json.Unmarshal into a
\* LogEntry succeeds on an object and on null.  Otherwise the body becomes
\* one raw entry.
JSONBatch(r) ==
    IF r.body.kind = "array" /\ Len(r.body.items) > 0
    THEN [i \in 1..Len(r.body.items) |-> WithDefaults(DecodedEntry(r.body.items[i]))]
    ELSE IF r.body.kind \in {"object", "null"}
    THEN <<WithDefaults(DecodedEntry(IF r.body.kind = "object" THEN "bare"
                                     ELSE "null"))>>
    ELSE <<[Timestamp |-> HcNow, Source |-> HcSource,
            RawData |-> BodyText(r.body), Message |-> BodyText(r.body)]>>

\* processTextResponse: the entries it hands to Process.
TextBatch(r) ==
    LET notBlank(l) == l # ""
        ls == SelectSeq(r.body.lines, notBlank)
    IN  [i \in 1..Len(ls) |-> [Timestamp |-> HcNow, Source |-> HcSource,
                               RawData |-> <<ls[i]>>, Message |-> <<ls[i]>>]]

\* fetch: "nil", the error it returns, or "panic".
fetch(r) ==
    IF r.doErr THEN "HTTP request failed"
    ELSE IF r.status < 200 \/ r.status >= 300
    THEN "HTTP request returned non-success status"
    ELSE IF r.readErr THEN "failed to read response body"
    ELSE IF r.json THEN processJSONResponse(r)
    ELSE processTextResponse(r)

\* fetch called Process.
CallsProcess(r) ==
    /\ ~r.doErr /\ r.status >= 200 /\ r.status < 300 /\ ~r.readErr
    /\ fetch(r) # "panic"
    /\ r.json \/ \E i \in 1..Len(r.body.lines) : r.body.lines[i] # ""

\* NewHTTPCollector on a valid URL, before Start.
NewHTTPCollector ==
    /\ hcPc = "idle"
    /\ hcResult = ""
    /\ hcCtx = ""
    /\ hcTick = FALSE
    /\ hcTicks = 0
    /\ hcResp = <<>>
    /\ hcLast = ""
    /\ hcFailed = 0
    /\ hcProcessed = 0
    /\ hcBatch = <<>>

\* HTTPCollector.Start up to its loop: NewTicker.
HcStart ==
    /\ hcPc = "idle"
    /\ hcPc' = "select"
    /\ UNCHANGED <<hcResult, hcCtx, hcTick, hcTicks, hcResp, hcLast, hcFailed,
                   hcProcessed, hcBatch>>
    /\ UNCHANGED nonHttpVars

\* time.Ticker: a poll interval has passed.
HcTick ==
    /\ hcPc \in {"select", "fetching"}
    /\ hcTicks < MaxPolls
    /\ hcTicks' = hcTicks + 1
    /\ hcTick' = TRUE
    /\ UNCHANGED <<hcPc, hcResult, hcCtx, hcResp, hcLast, hcFailed,
                   hcProcessed, hcBatch>>
    /\ UNCHANGED nonHttpVars

\* The context given to Start is cancelled, or its deadline passes.
HcCtxDone(err) ==
    /\ hcPc # "none"
    /\ hcCtx = ""
    /\ hcCtx' = err
    /\ UNCHANGED <<hcPc, hcResult, hcTick, hcTicks, hcResp, hcLast, hcFailed,
                   hcProcessed, hcBatch>>
    /\ UNCHANGED nonHttpVars

\* Start's select, "case <-ctx.Done(): return ctx.Err()".
HcSelectDone ==
    /\ hcPc = "select"
    /\ hcCtx # ""
    /\ hcPc' = "returned"
    /\ hcResult' = hcCtx
    /\ UNCHANGED <<hcCtx, hcTick, hcTicks, hcResp, hcLast, hcFailed,
                   hcProcessed, hcBatch>>
    /\ UNCHANGED nonHttpVars

\* Start's select, "case <-ticker.C": fetch sends its request, which the
\* endpoint will answer with r.
HcSelectTick(r) ==
    /\ hcPc = "select"
    /\ hcTick
    /\ hcTick' = FALSE
    /\ hcPc' = "fetching"
    /\ hcResp' = r
    /\ UNCHANGED <<hcResult, hcCtx, hcTicks, hcLast, hcFailed, hcProcessed,
                   hcBatch>>
    /\ UNCHANGED nonHttpVars

\* The rest of "case <-ticker.C": fetch returns and its error is printed; a
\* panic in fetch is recovered nowhere.
HcFetch ==
    /\ hcPc = "fetching"
    /\ hcLast' = fetch(hcResp)
    /\ hcPc' = IF fetch(hcResp) = "panic" THEN "panicked" ELSE "select"
    /\ hcFailed' = IF fetch(hcResp) \notin {"nil", "panic"}
                   THEN hcFailed + 1 ELSE hcFailed
    /\ hcProcessed' = IF CallsProcess(hcResp)
                      THEN hcProcessed + 1 ELSE hcProcessed
    /\ hcBatch' = IF ~CallsProcess(hcResp) THEN <<>>
                  ELSE IF hcResp.json THEN JSONBatch(hcResp)
                  ELSE TextBatch(hcResp)
    /\ UNCHANGED <<hcResult, hcCtx, hcTick, hcTicks, hcResp>>
    /\ UNCHANGED nonHttpVars

\* The units of the other sections, constructed and at rest.
Quiet ==
    /\ NewPool(0)
    /\ startBudget = MaxStarts
    /\ NewProcessor
    /\ NewFileCollector
    /\ fcFile = "file"
    /\ backend = "none"
    /\ entries = <<>>
    /\ capacity = 0
    /\ files = <<>>
    /\ currentFile = 0
    /\ currentDay = 0
    /\ inMemoryCache = <<>>
    /\ maxCacheSize = 0
    /\ storeLog = <<>>
    /\ closeCalled = FALSE
    /\ restarts = 0
    /\ last = <<>>

InitHTTP ==
    /\ Quiet
    /\ IdleExceptHTTP
    /\ NewHTTPCollector

NextHTTP ==
    \/ HcStart
    \/ HcTick
    \/ \E err \in {"context canceled", "context deadline exceeded"} :
          HcCtxDone(err)
    \/ HcSelectDone
    \/ \E r \in Responses : HcSelectTick(r)
    \/ HcFetch

SpecHTTP == InitHTTP /\ [][NextHTTP]_vars

\* C21: the loop of HTTPCollector.Start ends only by the cancellation
\* signal: Start leaves its loop only from the select, with the context
\* done, by returning the context's error; whatever a poll meets, the loop
\* goes back to the select for the next tick.
C21_LoopEndsOnlyOnCancel ==
    [][(hcPc \in {"select", "fetching"} /\ hcPc' \notin {"select", "fetching"})
         => /\ hcPc = "select"
            /\ hcCtx # ""
            /\ hcPc' = "returned"
            /\ hcResult' = hcCtx]_vars

(***************************************************************************)
(* The collector supervisor: runCollect's errgroup (cmd/logstream).        *)
(***************************************************************************)

\* Collectors runCollect starts.
MaxCollectors == 3

Collectors == 1..MaxCollectors

\* What a collector's Start returns: ctx.Err() of the group's context, which
\* runCollect derives from a context.WithCancel, or an error of its own
\* (stat, open or read failure).
NilErr == [err |-> "nil", by |-> 0]

Canceled == [err |-> "context canceled", by |-> 0]

Failure(c) == [err |-> "failure", by |-> c]

IsFailure(err) == err # NilErr /\ err # Canceled

\* runCollect up to the loop over the collectors: errgroup.WithContext.
WithContext ==
    /\ sgState = [c \in Collectors |-> "idle"]
    /\ sgReturns = <<>>
    /\ sgErr = NilErr
    /\ sgCancelled = FALSE
    /\ sgWait = "none"
    /\ sgWaitErr = NilErr

\* g.Go(func() error { return c.Start(ctx) }), in the order of the loop.
GroupGo(c) ==
    /\ sgState[c] = "idle"
    /\ \A d \in Collectors : d < c => sgState[d] # "idle"
    /\ sgState' = [sgState EXCEPT ![c] = "running"]
    /\ UNCHANGED <<sgReturns, sgErr, sgCancelled, sgWait, sgWaitErr>>
    /\ UNCHANGED nonSupVars

\* The signal handler's cancel(): the group's context is a child of ctx.
Signal ==
    /\ sgState # <<>>
    /\ ~sgCancelled
    /\ sgCancelled' = TRUE
    /\ UNCHANGED <<sgState, sgReturns, sgErr, sgWait, sgWaitErr>>
    /\ UNCHANGED nonSupVars

\* What Group.Go does with the value f returned: the first non-nil error is
\* kept (errOnce) and cancels the group's context.
GroupDone(c, err) ==
    /\ sgState' = [sgState EXCEPT ![c] = "returned"]
    /\ sgReturns' = Append(sgReturns, [collector |-> c, err |-> err])
    /\ IF err # NilErr /\ sgErr = NilErr
       THEN sgErr' = err /\ sgCancelled' = TRUE
       ELSE UNCHANGED <<sgErr, sgCancelled>>
    /\ UNCHANGED <<sgWait, sgWaitErr>>
    /\ UNCHANGED nonSupVars

\* A collector's Start returns an error of its own: it can do so whenever
\* it runs, the context done or not.
CollectorFails(c) ==
    /\ sgState[c] = "running"
    /\ GroupDone(c, Failure(c))

\* A collector's Start finds ctx.Done() and returns ctx.Err().
CollectorCancelled(c) ==
    /\ sgState[c] = "running"
    /\ sgCancelled
    /\ GroupDone(c, Canceled)

\* runCollect calls g.Wait() after the loop.
GroupWaitCall ==
    /\ sgWait = "none"
    /\ sgState # <<>>
    /\ \A c \in Collectors : sgState[c] # "idle"
    /\ sgWait' = "waiting"
    /\ UNCHANGED <<sgState, sgReturns, sgErr, sgCancelled, sgWaitErr>>
    /\ UNCHANGED nonSupVars

\* g.Wait(): g.wg.Wait(), cancel, return g.err.
GroupWaitReturn ==
    /\ sgWait = "waiting"
    /\ \A c \in Collectors : sgState[c] = "returned"
    /\ sgWait' = "returned"
    /\ sgWaitErr' = sgErr
    /\ sgCancelled' = TRUE
    /\ UNCHANGED <<sgState, sgReturns, sgErr>>
    /\ UNCHANGED nonSupVars

InitSupervisor ==
    /\ Quiet
    /\ IdleExceptSupervisor
    /\ WithContext

NextSupervisor ==
    \/ \E c \in Collectors : GroupGo(c)
    \/ Signal
    \/ \E c \in Collectors : CollectorFails(c)
    \/ \E c \in Collectors : CollectorCancelled(c)
    \/ GroupWaitCall
    \/ GroupWaitReturn

SpecSupervisor == InitSupervisor /\ [][NextSupervisor]_vars

\* The first error of a sequence of returns that is no cancellation error
\* (NilErr: there is none).
RECURSIVE FirstFailure(_)
FirstFailure(rs) ==
    IF rs = <<>> THEN NilErr
    ELSE IF IsFailure(Head(rs).err) THEN Head(rs).err
    ELSE FirstFailure(Tail(rs))

\* C22: once a collector has returned an error of its own the group's
\* context is done; g.Wait() has returned only if every collector has
\* returned; and when some collector returned an error of its own, what
\* g.Wait() returned is the first such error.
C22_SupervisorReportsFirstFailure ==
    /\ (\E i \in 1..Len(sgReturns) : IsFailure(sgReturns[i].err)) => sgCancelled
    /\ sgWait = "returned" =>
          /\ \A c \in Collectors : sgState[c] = "returned"
          /\ FirstFailure(sgReturns) # NilErr => sgWaitErr = FirstFailure(sgReturns)

(***************************************************************************)
(* Plugin registry: pkg/plugin/registry.go                                 *)
(***************************************************************************)

\* The plugin instances a caller may hand to the registry: some of them have
\* the same name.
PluginInstances ==
    << [Name |-> "mock", Version |-> "1.0.0"],
       [Name |-> "mock", Version |-> "2.0.0"],
       [Name |-> "geo", Version |-> "1.0.0"],
       [Name |-> "geo", Version |-> "1.1.0"],
       [Name |-> "enrich", Version |-> "1.0.0"] >>

PluginNames == {PluginInstances[i].Name : i \in 1..Len(PluginInstances)} \cup {"none"}

\* NewRegistry: an empty map.
NewRegistry ==
    /\ rPlugins = [n \in PluginNames |-> 0]
    /\ rFirst = [n \in PluginNames |-> 0]
    /\ rLast = [op |-> "NewRegistry"]

\* A registration that does not look for the name first.
RegisterOverwrite(plugins, p) ==
    [plugins |-> [plugins EXCEPT ![PluginInstances[p].Name] = p], err |-> "nil"]

\* The body of RegisterPlugin on the map: the map after the call and the
\* error returned.
Register(plugins, p) ==
    LET name == PluginInstances[p].Name IN
    IF plugins[name] # 0
    THEN [plugins |-> plugins, err |-> "already registered"]
    ELSE [plugins |-> [plugins EXCEPT ![name] = p], err |-> "nil"]

RegisterPlugin(p) ==
    LET name == PluginInstances[p].Name
        res == Register(rPlugins, p) IN
    /\ rLast # <<>>
    /\ rPlugins' = res.plugins
    /\ rFirst' = IF rFirst[name] = 0 /\ res.err = "nil"
                 THEN [rFirst EXCEPT ![name] = p] ELSE rFirst
    /\ rLast' = [op |-> "RegisterPlugin", plugin |-> p, err |-> res.err,
                 before |-> rPlugins]
    /\ UNCHANGED nonRegistryVars

GetPlugin(name) ==
    /\ rLast # <<>>
    /\ rLast' = [op |-> "GetPlugin", name |-> name,
                 plugin |-> rPlugins[name],
                 err |-> IF rPlugins[name] = 0 THEN "not found" ELSE "nil"]
    /\ UNCHANGED <<rPlugins, rFirst>>
    /\ UNCHANGED nonRegistryVars

\* The PluginInfo of the map's values in one order of iteration.
Listings(plugins) ==
    LET keys == {n \in PluginNames : plugins[n] # 0} IN
    { [i \in 1..Cardinality(keys) |->
          [Name |-> PluginInstances[plugins[f[i]]].Name,
           Version |-> PluginInstances[plugins[f[i]]].Version]] :
      f \in {g \in [1..Cardinality(keys) -> keys] :
                \A i, j \in 1..Cardinality(keys) : g[i] = g[j] => i = j} }

\* ListPlugins: range over a map has no fixed order.
ListPlugins ==
    /\ rLast # <<>>
    /\ \E l \in Listings(rPlugins) : rLast' = [op |-> "ListPlugins", list |-> l]
    /\ UNCHANGED <<rPlugins, rFirst>>
    /\ UNCHANGED nonRegistryVars

\* ClosePlugins: every plugin is closed and the map is replaced.
ClosePlugins ==
    /\ rLast # <<>>
    /\ rPlugins' = [n \in PluginNames |-> 0]
    /\ rFirst' = [n \in PluginNames |-> 0]
    /\ rLast' = [op |-> "ClosePlugins"]
    /\ UNCHANGED nonRegistryVars

InitRegistry ==
    /\ Quiet
    /\ IdleExceptRegistry
    /\ NewRegistry

NextRegistry ==
    \/ \E p \in 1..Len(PluginInstances) : RegisterPlugin(p)
    \/ \E name \in PluginNames : GetPlugin(name)
    \/ ListPlugins
    \/ ClosePlugins

SpecRegistry == InitRegistry /\ [][NextRegistry]_vars

\* Entries of a listing that carry this name.
ListedTimes(l, name) == Cardinality({i \in 1..Len(l) : l[i].Name = name})

\* C23: RegisterPlugin returns an error exactly when the plugin's name is
\* already in the registry, and then the registry is as it was before the
\* call; the instance that was registered first under a name is the one
\* GetPlugin returns for it, ListPlugins lists every registered name once,
\* and no two entries of the registry have the same name.
C23_RegisterRejectsDuplicate ==
    /\ rLast.op = "RegisterPlugin" =>
          IF rLast.before[PluginInstances[rLast.plugin].Name] # 0
          THEN rLast.err # "nil" /\ rPlugins = rLast.before
          ELSE rLast.err = "nil"
    /\ \A n \in PluginNames : rPlugins[n] = rFirst[n]
    /\ rLast.op = "GetPlugin" => rLast.plugin = rFirst[rLast.name]
    /\ rLast.op = "ListPlugins" =>
          \A n \in PluginNames :
             ListedTimes(rLast.list, n) = IF rFirst[n] # 0 THEN 1 ELSE 0
    /\ \A n1, n2 \in PluginNames :
          (rPlugins[n1] # 0 /\ rPlugins[n2] # 0 /\ n1 # n2)
             => PluginInstances[rPlugins[n1]].Name # PluginInstances[rPlugins[n2]].Name

\* A second instance named "mock" has just been refused and the first one
\* is still registered.
C23_Witness ==
    /\ rLast.op = "RegisterPlugin"
    /\ rLast.err # "nil"
    /\ rLast.plugin # rPlugins[PluginInstances[rLast.plugin].Name]

(***************************************************************************)
(* Field transformers (part_009): AddField, RemoveField, RenameField.      *)
(***************************************************************************)

\* Transform calls on one entry.
MaxTransforms == 2

FieldNames == {"a", "b", "c"}

FieldValues == {1, 2}

\* entry.Fields: a nil map, or a map from some field names to values.
FieldMaps ==
    {[isNil |-> TRUE, kv |-> <<>>]}
    \cup {[isNil |-> FALSE, kv |-> f] :
            f \in UNION {[S -> FieldValues] : S \in SUBSET {"a", "b"}}}

TransformEntries ==
    {[Timestamp |-> 1, Source |-> "s", Level |-> "info", Message |-> "m",
      Fields |-> f] : f \in FieldMaps}

Transformers ==
    {[kind |-> "AddField", FieldName |-> n, FieldValue |-> v] :
        n \in {"a", "b"}, v \in FieldValues}
    \cup {[kind |-> "RemoveField", FieldName |-> n] : n \in FieldNames}
    \cup {[kind |-> "RenameField", OldName |-> o, NewName |-> n] :
            o \in FieldNames, n \in FieldNames}

\* m[k] = v on a Go map.
MapSet(kv, k, v) == [x \in DOMAIN kv \cup {k} |-> IF x = k THEN v ELSE kv[x]]

\* delete(m, k).
MapDelete(kv, k) == [x \in DOMAIN kv \ {k} |-> kv[x]]

\* AddFieldTransformer.Transform.
AddFieldTransform(t, e) ==
    [e EXCEPT !.Fields =
        [isNil |-> FALSE,
         kv |-> MapSet(IF e.Fields.isNil THEN <<>> ELSE e.Fields.kv,
                       t.FieldName, t.FieldValue)]]

\* RemoveFieldTransformer.Transform.
RemoveFieldTransform(t, e) ==
    IF e.Fields.isNil THEN e
    ELSE [e EXCEPT !.Fields.kv = MapDelete(e.Fields.kv, t.FieldName)]

\* A rename that does not test whether the old field exists: a missing field
\* reads as the zero value.
RenameFieldNoExistsTest(t, e) ==
    IF e.Fields.isNil THEN e
    ELSE [e EXCEPT !.Fields.kv =
            MapDelete(MapSet(e.Fields.kv, t.NewName,
                             IF t.OldName \in DOMAIN e.Fields.kv
                             THEN e.Fields.kv[t.OldName] ELSE 0),
                      t.OldName)]

\* RenameFieldTransformer.Transform.
RenameFieldTransform(t, e) ==
    IF e.Fields.isNil THEN e
    ELSE IF t.OldName \in DOMAIN e.Fields.kv
    THEN [e EXCEPT !.Fields.kv =
            MapDelete(MapSet(e.Fields.kv, t.NewName, e.Fields.kv[t.OldName]),
                      t.OldName)]
    ELSE e

\* Transformer.Transform, by the transformer's type.
TransformOf(t, e) ==
    CASE t.kind = "AddField" -> AddFieldTransform(t, e)
      [] t.kind = "RemoveField" -> RemoveFieldTransform(t, e)
      [] t.kind = "RenameField" -> RenameFieldTransform(t, e)

\* One call t.Transform(entry).
Transform ==
    /\ trHist # <<>>
    /\ Len(trHist) <= MaxTransforms
    /\ trEntry' = TransformOf(trT, trEntry)
    /\ trHist' = Append(trHist, TransformOf(trT, trEntry))
    /\ UNCHANGED trT
    /\ UNCHANGED nonTransformVars

InitTransform ==
    /\ Quiet
    /\ IdleExceptTransform
    /\ trT \in Transformers
    /\ trEntry \in TransformEntries
    /\ trHist = <<trEntry>>

NextTransform ==
    \/ Transform

SpecTransform == InitTransform /\ [][NextTransform]_vars

\* C24: for the add-field, remove-field and rename-field transformers, a
\* second (and any later) application of the same transformer leaves the
\* entry as the first application left it.
C24_TransformIdempotent ==
    \A i \in 2..Len(trHist) : trHist[i] = trHist[2]

\* A rename has been applied twice to an entry that the first application
\* changed.
C24_Witness ==
    /\ Len(trHist) >= 3
    /\ trT.kind = "RenameField"
    /\ trHist[2] # trHist[1]

(***************************************************************************)
(* Query engine: Engine.ParseQuery (internal/query/query.go).  A token is  *)
(* a string, that is a sequence of characters.                             *)
(***************************************************************************)

\* Tokens of one query string.
MaxTokens == 3

\* ParseQuery: Limit: 100.
DefaultLimit == 100

KwFrom == <<"f", "r", "o", "m">>

KwTo == <<"t", "o">>

KwSource == <<"s", "o", "u", "r", "c", "e">>

KwLevel == <<"l", "e", "v", "e", "l">>

KwLimit == <<"l", "i", "m", "i", "t">>

\* The tokens the query strings are made of.
Vocabulary ==
    { KwFrom, KwSource, KwSource \o <<":">>, KwLevel, KwLevel \o <<":">>,
      KwLimit,
      <<"a">>, <<"b", ",", "c">>, <<"7">>, <<"0">>, <<"k", ":", "v">> }

RECURSIVE TokenSeqs(_)
\* The token sequences of at most n tokens.
TokenSeqs(n) ==
    IF n = 0 THEN {<<>>}
    ELSE TokenSeqs(n - 1)
         \cup {Append(ts, t) : ts \in {x \in TokenSeqs(n - 1) : Len(x) = n - 1},
                               t \in Vocabulary}

\* The position of the first sep in str (0: none).
IndexOf(str, sep) ==
    IF \E i \in 1..Len(str) : str[i] = sep
    THEN CHOOSE i \in 1..Len(str) :
            str[i] = sep /\ \A j \in 1..(i - 1) : str[j] # sep
    ELSE 0

RECURSIVE Split(_, _)
\* strings.Split(str, sep) for a separator of one character.
Split(str, sep) ==
    IF IndexOf(str, sep) = 0 THEN <<str>>
    ELSE <<SubSeq(str, 1, IndexOf(str, sep) - 1)>>
         \o Split(SubSeq(str, IndexOf(str, sep) + 1, Len(str)), sep)

\* strings.SplitN(str, sep, 2) on a string that contains sep.
SplitN2(str, sep) ==
    << SubSeq(str, 1, IndexOf(str, sep) - 1),
       SubSeq(str, IndexOf(str, sep) + 1, Len(str)) >>

Digits == {"0", "1", "2", "3", "4", "5", "6", "7", "8", "9"}

DigitVal(c) ==
    CASE c = "0" -> 0 [] c = "1" -> 1 [] c = "2" -> 2 [] c = "3" -> 3
      [] c = "4" -> 4 [] c = "5" -> 5 [] c = "6" -> 6 [] c = "7" -> 7
      [] c = "8" -> 8 [] c = "9" -> 9

RECURSIVE DecimalVal(_)
DecimalVal(str) ==
    IF str = <<>> THEN 0
    ELSE 10 * DecimalVal(SubSeq(str, 1, Len(str) - 1)) + DigitVal(str[Len(str)])

\* strconv.Atoi on strings without a sign.
Atoi(str) ==
    IF str # <<>> /\ \A i \in 1..Len(str) : str[i] \in Digits
    THEN [ok |-> TRUE, n |-> DecimalVal(str)]
    ELSE [ok |-> FALSE, n |-> 0]

\* models.Query{Limit: 100}; a nil FilterFields map is the empty map.
NewParsedQuery ==
    [Sources |-> <<>>, Levels |-> <<>>, Filter |-> <<>>, FilterFields |-> <<>>,
     Limit |-> DefaultLimit]

\* The default branch of the switch: a field:value pair or a part of the
\* general filter.
ParseOther(q, token) ==
    IF Contains(token, <<":">>)
    THEN [q EXCEPT !.FilterFields =
            MapSet(q.FilterFields, SplitN2(token, ":")[1], SplitN2(token, ":")[2])]
    ELSE [q EXCEPT !.Filter =
            (IF q.Filter # <<>> THEN q.Filter \o <<" ">> ELSE <<>>) \o token]

\* The cases that take the next token as their argument.
ParseArg(q, kw, arg) ==
    CASE kw = KwSource -> [q EXCEPT !.Sources = q.Sources \o Split(arg, ",")]
      [] kw = KwLevel -> [q EXCEPT !.Levels = q.Levels \o Split(arg, ",")]
      [] kw = KwLimit ->
            IF Atoi(arg).ok /\ Atoi(arg).n > 0
            THEN [q EXCEPT !.Limit = Atoi(arg).n] ELSE q
      [] OTHER -> q

RECURSIVE ParseLoop(_, _, _)
\* The loop of ParseQuery from token i on.  A case of a Go switch does not
\* fall through: "source:", "level:" and "limit:" are cases with an empty
\* body.
ParseLoop(tokens, i, q) ==
    IF i > Len(tokens) THEN q
    ELSE LET kw == ToLower(tokens[i]) IN
         IF kw \in {KwSource \o <<":">>, KwLevel \o <<":">>, KwLimit \o <<":">>}
         THEN ParseLoop(tokens, i + 1, q)
         ELSE IF kw \in {KwFrom, KwTo, KwSource, KwLevel, KwLimit}
         THEN IF i + 1 <= Len(tokens)
              THEN ParseLoop(tokens, i + 2, ParseArg(q, kw, tokens[i + 1]))
              ELSE ParseLoop(tokens, i + 1, q)
         ELSE ParseLoop(tokens, i + 1, ParseOther(q, tokens[i]))

\* Engine.ParseQuery on the tokens of its argument.
ParseQueryResult(tokens) == ParseLoop(tokens, 1, NewParsedQuery)

ParseQuery ==
    /\ ~pqCalled
    /\ pqCalled' = TRUE
    /\ pqResult' = ParseQueryResult(pqTokens)
    /\ UNCHANGED pqTokens
    /\ UNCHANGED nonParseVars

InitParse ==
    /\ Quiet
    /\ IdleExceptParse
    /\ pqTokens \in TokenSeqs(MaxTokens)
    /\ pqCalled = FALSE
    /\ pqResult = NewParsedQuery

NextParse ==
    \/ ParseQuery

SpecParse == InitParse /\ [][NextParse]_vars

\* The grammar's reading of a keyword token: "source" and "source:" are
\* the source keyword, "level" and "level:" the level keyword; the other
\* keywords have one form.
GrammarKeyword(token) ==
    LET kw == ToLower(token) IN
    CASE kw \in {KwSource, KwSource \o <<":">>} -> KwSource
      [] kw \in {KwLevel, KwLevel \o <<":">>} -> KwLevel
      [] kw \in {KwFrom, KwTo, KwLimit} -> kw
      [] OTHER -> <<>>

RECURSIVE GrammarLoop(_, _, _)
\* The Query the grammar gives for the tokens from i on: a keyword takes
\* the next token as its argument, a token with a colon sets a filter
\* field, any other token is appended to the filter.  Where the grammar is
\* silent (a keyword that is the last token, a limit that is no positive
\* integer) the Query is left as it is.
GrammarLoop(tokens, i, q) ==
    IF i > Len(tokens) THEN q
    ELSE IF GrammarKeyword(tokens[i]) # <<>>
    THEN IF i + 1 <= Len(tokens)
         THEN GrammarLoop(tokens, i + 2,
                          ParseArg(q, GrammarKeyword(tokens[i]), tokens[i + 1]))
         ELSE GrammarLoop(tokens, i + 1, q)
    ELSE GrammarLoop(tokens, i + 1, ParseOther(q, tokens[i]))

\* C25: ParseQuery returns the Query the grammar gives for its tokens:
\* `source <csv>` and `source: <csv>` append to sources, `level <csv>` and
\* `level: <csv>` append to levels, `limit <int>` sets the limit, a
\* `<field>:<value>` token sets a filter field, the other tokens make up the
\* filter, separated by single spaces, and the limit is 100 when no limit
\* token sets it.
C25_ParseQueryFollowsGrammar ==
    pqCalled => pqResult = GrammarLoop(pqTokens, 1, NewParsedQuery)

(***************************************************************************)
(* Query engine: Engine.findPatterns (internal/query/query.go).  A message *)
(* is a sequence of words; a word made of digits only is what the regular  *)
(* expression \b\d+\b matches.                                             *)
(***************************************************************************)

\* Entries appended to the distinct messages of one analysis.
MaxExtra == 3

\* findPatterns: maxPatterns := 10
maxPatterns == 10

\* findPatterns: len(patternExamples[pattern]) < 3
MaxExamples == 3

NumberWords == {"1", "2"}

TemplateWords ==
    <<"t1", "t2", "t3", "t4", "t5", "t6", "t7", "t8", "t9", "t10", "t11">>

\* k messages with k distinct templates.
DistinctMessages(k) == [i \in 1..k |-> <<TemplateWords[i], "1">>]

\* Messages that repeat templates of the first ones, and the empty message.
ExtraMessages == {<<"t1", "1">>, <<"t1", "2">>, <<"t2", "2">>, <<>>}

RECURSIVE ExtraSeqs(_)
ExtraSeqs(n) ==
    IF n = 0 THEN {<<>>}
    ELSE ExtraSeqs(n - 1)
         \cup {Append(s, x) : s \in {y \in ExtraSeqs(n - 1) : Len(y) = n - 1},
                              x \in ExtraMessages}

\* numberRegex.ReplaceAllString(pattern, "{number}")
ReplaceNumbers(msg) ==
    [i \in 1..Len(msg) |-> IF msg[i] \in NumberWords THEN "{number}" ELSE msg[i]]

\* The pattern of a message under a PatternConfig.
PatternOf(msg, config) ==
    IF config.ReplaceNumbers THEN ReplaceNumbers(msg) ELSE msg

RECURSIVE Tally(_, _, _, _, _)
\* The loop over the entries from entry i on: patternFrequency and
\* patternExamples.
Tally(msgs, config, i, freq, examples) ==
    IF i > Len(msgs) THEN [freq |-> freq, examples |-> examples]
    ELSE IF msgs[i] = <<>> THEN Tally(msgs, config, i + 1, freq, examples)
    ELSE LET pattern == PatternOf(msgs[i], config)
             seen == pattern \in DOMAIN freq
         IN Tally(msgs, config, i + 1,
                  MapSet(freq, pattern, IF seen THEN freq[pattern] + 1 ELSE 1),
                  IF seen /\ Len(examples[pattern]) >= MaxExamples
                  THEN examples
                  ELSE MapSet(examples, pattern,
                              (IF seen THEN examples[pattern] ELSE <<>>)
                                 \o <<msgs[i]>>))

\* The models.Pattern of every key of patternFrequency.
AllPatterns(msgs, config) ==
    LET t == Tally(msgs, config, 1, <<>>, <<>>) IN
    {[Pattern |-> p, Count |-> t.freq[p], Examples |-> t.examples[p]] :
        p \in DOMAIN t.freq}

\* patterns[:maxPatterns] of a slice filled by ranging over a map, which is
\* never sorted: any maxPatterns of the patterns.
FirstPatterns(all) ==
    {S \in SUBSET all :
        Cardinality(S) = IF Cardinality(all) > maxPatterns
                         THEN maxPatterns ELSE Cardinality(all)}

findPatterns ==
    /\ paConfig # <<>>
    /\ ~paCalled
    /\ paCalled' = TRUE
    /\ paResult' \in FirstPatterns(AllPatterns(paEntries, paConfig))
    /\ UNCHANGED <<paEntries, paConfig>>
    /\ UNCHANGED nonPatternVars

InitPatterns ==
    /\ Quiet
    /\ IdleExceptPatterns
    /\ \E k \in {1, Len(TemplateWords)}, x \in ExtraSeqs(MaxExtra) :
          paEntries = DistinctMessages(k) \o x
    /\ paConfig \in {[ReplaceNumbers |-> b] : b \in BOOLEAN}
    /\ paCalled = FALSE
    /\ paResult = {}

NextPatterns ==
    \/ findPatterns

SpecPatterns == InitPatterns /\ [][NextPatterns]_vars

\* The entries whose message is not empty and has this pattern.
EntriesOfPattern(p) ==
    {i \in 1..Len(paEntries) :
        paEntries[i] # <<>> /\ PatternOf(paEntries[i], paConfig) = p}

\* The patterns of the messages of the entries.
PatternsOfEntries ==
    {PatternOf(paEntries[i], paConfig) :
        i \in {j \in 1..Len(paEntries) : paEntries[j] # <<>>}}

\* C26: pattern analysis emits at most 10 templates, no template that is
\* left out has a higher count than an emitted one, the count of an emitted
\* template is the number of entries with that template, and its examples
\* are min(count, 3) original messages of that template.
C26_TopTemplates ==
    paCalled =>
       /\ Cardinality(paResult) <= maxPatterns
       /\ \A p \in paResult :
             /\ p.Count = Cardinality(EntriesOfPattern(p.Pattern))
             /\ Len(p.Examples) = IF p.Count < MaxExamples THEN p.Count
                                  ELSE MaxExamples
             /\ \A x \in 1..Len(p.Examples) :
                   \E i \in EntriesOfPattern(p.Pattern) :
                      paEntries[i] = p.Examples[x]
             /\ \A q \in PatternsOfEntries :
                   (\A r \in paResult : r.Pattern # q)
                      => Cardinality(EntriesOfPattern(q)) <= p.Count

(***************************************************************************)
(* runCollect's shutdown (cmd/logstream/collect.go): the collectors hand   *)
(* batches to the pipeline until they return; g.Wait() returns with the    *)
(* group's context cancelled; then wp.Stop(shutdownCtx) and store.Close(). *)
(***************************************************************************)

\* Entries of the batch a collector hands to Process.
MaxBatchEntries == 3

\* A collector's batch: collectors run until g.Wait() has returned.
CollectorProcess(n) ==
    /\ stopPc = "none"
    /\ Process(n)

CollectorSubmit ==
    /\ stopPc = "none"
    /\ ProcessSubmit

\* wp.Stop(shutdownCtx), called once g.Wait() has returned: every collector
\* has returned and the context the pool was started with is cancelled.
ShutdownStop ==
    /\ startCalls > 0
    /\ rootDone
    /\ procPos = procEnd
    /\ StopBegin

\* store.Close(), called when wp.Stop has returned.
ShutdownClose ==
    /\ stopPc = "returned"
    /\ ~closeCalled
    /\ closeCalled' = TRUE
    /\ UNCHANGED <<restarts, backend, entries, capacity, files, currentFile,
                   currentDay, inMemoryCache, maxCacheSize, storeLog, last>>
    /\ UNCHANGED nonStorageVars

InitShutdown ==
    /\ OtherUnitsIdle
    /\ Quiet

NextShutdown ==
    \/ Start
    \/ \E n \in 1..MaxBatchEntries : CollectorProcess(n)
    \/ CollectorSubmit
    \/ RootCancel
    \/ \E w \in 1..Len(wstate) : WorkerReceive(w)
    \/ \E w \in 1..Len(wstate) : WorkerFinish(w)
    \/ \E w \in 1..Len(wstate) : WorkerExitCancelled(w)
    \/ \E w \in 1..Len(wstate) : WorkerExitClosed(w)
    \/ ShutdownStop
    \/ StopDone
    \/ StopDeadline
    \/ ShutdownClose

SpecShutdown == InitShutdown /\ [][NextShutdown]_vars

\* C27: in runCollect's shutdown, when Stop returns without its deadline
\* having expired, every job Submit accepted before the shutdown has been
\* executed; so it has been when the storage is closed.
C27_ShutdownDrains ==
    [][/\ (stopPc = "waiting" /\ stopPc' = "returned" /\ stopVia' = "done")
            => acceptedAtStop' \subseteq executed'
       /\ (~closeCalled /\ closeCalled' /\ stopVia = "done")
            => acceptedAtStop \subseteq executed]_vars

(***************************************************************************)
(* Jobs that panic: Pool.processJob (pkg/worker/pool.go).                  *)
(***************************************************************************)

\* Workers of the pool in this part.
MaxPanicWorkers == 2

\* The jobs that panic when they are run.
PanickingJobs == {2}

\* A processJob without the deferred recover: the panic leaves processJob
\* and the worker, uncounted.
NoRecover(panics) ==
    [errored |-> 0, alive |-> ~panics]

\* The deferred function of processJob: recover() stops a panic of the job
\* and counts it; processJob returns normally either way.
Recover(panics) ==
    [errored |-> IF panics THEN 1 ELSE 0, alive |-> TRUE]

\* Pool.worker runs a job that returns.
WorkerRun(w) ==
    /\ wjob[w] \notin PanickingJobs
    /\ WorkerFinish(w)

\* Pool.worker runs a job that panics: processJob, then the loop again.
WorkerRecover(w) ==
    /\ ~crashed
    /\ wstate[w] = "running"
    /\ wjob[w] \in PanickingJobs
    /\ m' = [m EXCEPT !.workItemsErrored = @ + Recover(TRUE).errored,
                      !.workItemsProcessed =
                          IF Recover(TRUE).alive THEN @ + 1 ELSE @]
    /\ wstate' = [wstate EXCEPT ![w] =
                     IF Recover(TRUE).alive THEN "select" ELSE "exited"]
    /\ crashed' = ~Recover(TRUE).alive
    /\ wjob' = [wjob EXCEPT ![w] = 0]
    /\ UNCHANGED nonPoolVars
    /\ UNCHANGED <<startBudget, stop2Pc, workers, jobs, jobsClosed, startCalls,
                   rootDone, stopPc, stopVia, startedAtStop, acceptedAtStop,
                   procPos, procEnd, accepted, dropped, executed>>

InitPanic ==
    /\ OtherUnitsIdle
    /\ \E n \in 1..MaxPanicWorkers : NewPool(n)
    /\ startBudget = MaxStarts
    /\ NewProcessor
    /\ NewFileCollector
    /\ fcFile = "file"
    /\ backend = "none"
    /\ entries = <<>>
    /\ capacity = 0
    /\ files = <<>>
    /\ currentFile = 0
    /\ currentDay = 0
    /\ inMemoryCache = <<>>
    /\ maxCacheSize = 0
    /\ storeLog = <<>>
    /\ closeCalled = FALSE
    /\ restarts = 0
    /\ last = <<>>

NextPanic ==
    \/ Start
    \/ \E n \in 1..MaxBatchEntries : Process(n)
    \/ ProcessSubmit
    \/ RootCancel
    \/ \E w \in 1..Len(wstate) : WorkerReceive(w)
    \/ \E w \in 1..Len(wstate) : WorkerRun(w)
    \/ \E w \in 1..Len(wstate) : WorkerRecover(w)
    \/ \E w \in 1..Len(wstate) : WorkerExitCancelled(w)
    \/ \E w \in 1..Len(wstate) : WorkerExitClosed(w)
    \/ StopBegin
    \/ StopDone
    \/ StopDeadline

SpecPanic == InitPanic /\ [][NextPanic]_vars

\* The worker goroutines that have not returned.
LiveWorkers(ws) == {w \in 1..Len(ws) : ws[w] # "exited"}

\* C28: when a job panics, the worker that ran it is back at its select,
\* the error counter has grown by one, the process has not died and the set
\* of live workers is what it was.
C28_PanicKeepsWorker ==
    [][\A w \in 1..Len(wstate) :
          (wstate[w] = "running" /\ wjob[w] \in PanickingJobs
             /\ wstate'[w] # "running")
          => /\ wstate'[w] = "select"
             /\ ~crashed'
             /\ m'.workItemsErrored = m.workItemsErrored + 1
             /\ LiveWorkers(wstate') = LiveWorkers(wstate)]_vars

\* The only worker of a pool has run a job that panicked and, after it, a
\* later job of the queue.
C28_Witness ==
    /\ Len(wstate) = 1
    /\ 2 \in accepted
    /\ m.workItemsErrored = 1
    /\ dropped = {}
    /\ 3 \in executed

(***************************************************************************)
(* Claims about the order of the in-memory ring and about the hot cache of *)
(* the on-disk backend (SpecStorage).                                      *)
(***************************************************************************)

\* A Store call on the in-memory backend returns nil in this step.
MemStoreReturns ==
    /\ backend = "memory"
    /\ Len(storeLog') = Len(storeLog) + 1

\* C29: the in-memory backend evicts in insertion order: a Store on a ring
\* that holds capacity entries drops the entry at the head, which is the
\* one inserted earliest, keeps the others in their order and puts the new
\* entry last; a Store below capacity drops nothing; the ring always holds
\* the entries stored most recently, in the order of their Store calls.
C29_EvictsOldestFirst ==
    [][/\ MemStoreReturns =>
             entries' = (IF Len(entries) >= capacity THEN Tail(entries)
                         ELSE entries) \o <<storeLog'[Len(storeLog')]>>
       /\ backend = "memory" =>
             /\ Len(entries') <= Len(storeLog')
             /\ entries' = SubSeq(storeLog', Len(storeLog') - Len(entries') + 1,
                                  Len(storeLog'))]_vars

\* A ring of capacity 2 that was full has taken a third entry: the first
\* one stored is gone, the second and the third are held in that order.
C29_Witness ==
    /\ backend = "memory"
    /\ capacity = 2
    /\ last.op = "Store"
    /\ Len(storeLog) = 3
    /\ storeLog[1] \notin {storeLog[2], storeLog[3]}
    /\ entries = <<storeLog[2], storeLog[3]>>

\* The timestamps of the entries the hot cache holds.
CachedTimestamps ==
    {Catalog[inMemoryCache[i]].Timestamp : i \in 1..Len(inMemoryCache)}

\* The query's time_from lies within the range the cached entries cover.
FromInCachedRange(q) ==
    /\ \E t \in CachedTimestamps : t <= q.From
    /\ \E t \in CachedTimestamps : q.From <= t

\* C30: a Query on the on-disk backend whose hot cache holds entries is
\* answered from the cache if and only if it has no time_from or its
\* time_from lies within the range of the cached entries; otherwise it is
\* answered by loading and scanning day files.
C30_CacheIffInRange ==
    (backend = "disk" /\ last.op = "Query" /\ Len(inMemoryCache) > 0) =>
        /\ last.path \in {"cache", "disk"}
        /\ last.path = "cache" <=>
              (last.q.From = 0 \/ FromInCachedRange(last.q))

(***************************************************************************)
(* Claims about the hot cache against the day files (SpecStorage).         *)
(***************************************************************************)

\* The last n elements of a sequence, all of it when it is shorter.
LastN(seq, n) ==
    IF Len(seq) <= n THEN seq ELSE SubSeq(seq, Len(seq) - n + 1, Len(seq))

\* Some answer that a scan of the day files gives to the query has the same
\* entries, in the same order, as the given result.
DiskScanReturns(q, res) ==
    \E d \in queryDisk(q) :
        /\ d.err = ""
        /\ Len(d.res) = Len(res)
        /\ \A i \in 1..Len(res) : SameButRaw(d.res[i], res[i])

\* C31: the hot cache never holds more than maxCacheSize entries and holds
\* exactly the last maxCacheSize stored entries in store order, and a Query
\* answered from the cache returns the entries that a scan of the day files
\* returns for that query.
C31_CacheTransparent ==
    backend = "disk" =>
        /\ Len(inMemoryCache) <= maxCacheSize
        /\ inMemoryCache = LastN(storeLog, maxCacheSize)
        /\ (last.op = "Query" /\ last.path = "cache") =>
              DiskScanReturns(last.q, last.res)

(***************************************************************************)
(* LogProcessor.processEntry step by step, with AddFilter, AddTransformer  *)
(* and AddPlugin called by other goroutines in between.  Each list is a Go *)
(* slice: a header (backing array, length) over an array whose capacity is *)
(* the array's length; append writes in place while the capacity lasts and *)
(* moves to a larger array otherwise.  An item is one registered filter,   *)
(* transformer or plugin; its id is its place among all registrations.     *)
(***************************************************************************)

\* Items registered per kind, at most.
MaxStageItems == 4

\* Items registered in all, at most.
MaxRegistered == 4

\* processEntry calls, at most.
MaxStageEntries == 2

StageKinds == {"filter", "transformer", "plugin"}

\* NewLevelFilter of a transformer or plugin item: none.
NoFilter == [Levels |-> {}, IncludeLevels |-> FALSE]

\* An element of a backing array that no append has written.
NoItem == [kind |-> "", id |-> 0, filter |-> NoFilter]

\* make([]Filter, 0): length 0, no backing array.
EmptySlice == [arr |-> 0, len |-> 0]

\* cap(s)
Cap(heap, s) == IF s.arr = 0 THEN 0 ELSE Len(heap[s.arr])

\* The capacity append gives a slice that has outgrown its array.
GrowCap(cap) == IF cap = 0 THEN 1 ELSE 2 * cap

\* s[0:len(s)], read from the backing array.
SliceItems(heap, s) == [i \in 1..s.len |-> heap[s.arr][i]]

\* append(s, item): the arrays afterwards and the header returned.
SliceAppend(heap, s, item) ==
    IF s.len < Cap(heap, s)
    THEN [heap |-> [heap EXCEPT ![s.arr][s.len + 1] = item],
          s |-> [s EXCEPT !.len = @ + 1]]
    ELSE [heap |-> Append(heap,
                      [i \in 1..GrowCap(Cap(heap, s)) |->
                          IF i <= s.len THEN heap[s.arr][i]
                          ELSE IF i = s.len + 1 THEN item ELSE NoItem]),
          s |-> [arr |-> Len(heap) + 1, len |-> s.len + 1]]

\* The entries handed to processEntry; touched lists the transformers and
\* plugins that have changed the entry, in the order of their changes.
StageEntries ==
    {[level |-> l, marshalable |-> ok, Message |-> <<"m">>, RawData |-> <<>>,
      hasFields |-> FALSE, touched |-> <<>>] :
        l \in {"DEBUG", "info"}, ok \in BOOLEAN}

\* A range loop that reads the processor's list anew on every round.
IteratedLive(snap, current) == current

\* "for _, filter := range filters": the loop runs over the local copy of
\* the header, whatever p.filters has become.
Iterated(snap, current) == snap

\* A pipeline that runs the plugins before the transformers.
NextStagePluginsFirst(stage) ==
    CASE stage = "filter" -> "plugin"
      [] stage = "plugin" -> "transformer"
      [] OTHER -> "store"

\* The order of the blocks of processEntry.
NextStage(stage) ==
    CASE stage = "filter" -> "transformer"
      [] stage = "transformer" -> "plugin"
      [] OTHER -> "store"

NewStageProcessor ==
    /\ lpHeap = [k \in StageKinds |-> <<>>]
    /\ lpLists = [k \in StageKinds |-> EmptySlice]
    /\ lpRegistered = [k \in StageKinds |-> <<>>]
    /\ lpPc = "idle"
    /\ lpStage = ""
    /\ lpSnap = EmptySlice
    /\ lpIdx = 0
    /\ lpEntry = <<>>
    /\ lpAtSnap = [k \in StageKinds |-> <<>>]
    /\ lpCalls = <<>>
    /\ lpStored = <<>>
    /\ lpCount = 0
    /\ lpMetrics = [filtered |-> 0, processed |-> 0, errored |-> 0]

\* The number of registrations so far.
RegisteredCount ==
    Len(lpRegistered["filter"]) + Len(lpRegistered["transformer"])
        + Len(lpRegistered["plugin"])

\* AddFilter, AddTransformer, AddPlugin: under p.mu.Lock(), the item is
\* appended to the list of its kind.
LpAdd(kind, f) ==
    /\ lpPc # "none"
    /\ Len(lpRegistered[kind]) < MaxStageItems
    /\ RegisteredCount < MaxRegistered
    /\ LET item == [kind |-> kind, id |-> RegisteredCount + 1, filter |-> f]
           a == SliceAppend(lpHeap[kind], lpLists[kind], item)
       IN  /\ lpHeap' = [lpHeap EXCEPT ![kind] = a.heap]
           /\ lpLists' = [lpLists EXCEPT ![kind] = a.s]
           /\ lpRegistered' = [lpRegistered EXCEPT ![kind] = Append(@, item)]
    /\ UNCHANGED <<lpPc, lpStage, lpSnap, lpIdx, lpEntry, lpAtSnap, lpCalls,
                   lpStored, lpCount, lpMetrics>>
    /\ UNCHANGED nonStageVars

LpAddFilter(f) == LpAdd("filter", f)

LpAddTransformer == LpAdd("transformer", NoFilter)

LpAddPlugin == LpAdd("plugin", NoFilter)

\* A worker calls processEntry: the parsing block, then on to the filters.
LpBegin(entry) ==
    /\ lpPc = "idle"
    /\ lpCount < MaxStageEntries
    /\ lpCount' = lpCount + 1
    /\ lpEntry' = ParseIfNeeded(entry)
    /\ lpPc' = "lock"
    /\ lpStage' = "filter"
    /\ lpSnap' = EmptySlice
    /\ lpIdx' = 0
    /\ lpAtSnap' = [k \in StageKinds |-> <<>>]
    /\ lpCalls' = <<>>
    /\ UNCHANGED <<lpHeap, lpLists, lpRegistered, lpStored, lpMetrics>>
    /\ UNCHANGED nonStageVars

\* p.mu.RLock(); filters := p.filters; p.mu.RUnlock() (and the same for the
\* transformers and the plugins).
LpSnapshot ==
    /\ lpPc = "lock"
    /\ lpSnap' = lpLists[lpStage]
    /\ lpAtSnap' = [lpAtSnap EXCEPT ![lpStage] = lpRegistered[lpStage]]
    /\ lpIdx' = 0
    /\ lpPc' = "range"
    /\ UNCHANGED <<lpHeap, lpLists, lpRegistered, lpStage, lpEntry, lpCalls,
                   lpStored, lpCount, lpMetrics>>
    /\ UNCHANGED nonStageVars

\* One round of the stage's range loop: the next element is read from the
\* backing array and called with the entry.  A filter that returns false
\* ends processEntry; a transformer or plugin changes the entry in place.
LpApply ==
    /\ lpPc = "range"
    /\ LET s == Iterated(lpSnap, lpLists[lpStage])
       IN  /\ lpIdx < s.len
           /\ LET item == lpHeap[lpStage][s.arr][lpIdx + 1]
                  rejected == /\ lpStage = "filter"
                              /\ ~LevelFilterApply(item.filter, lpEntry)
              IN  /\ lpCalls' = Append(lpCalls, [call |-> lpStage, id |-> item.id])
                  /\ lpIdx' = lpIdx + 1
                  /\ lpEntry' = IF lpStage = "filter" THEN lpEntry
                                ELSE [lpEntry EXCEPT !.touched = Append(@, item.id)]
                  /\ lpPc' = IF rejected THEN "idle" ELSE "range"
                  /\ lpMetrics' = IF rejected
                                  THEN [lpMetrics EXCEPT !.filtered = @ + 1]
                                  ELSE lpMetrics
    /\ UNCHANGED <<lpHeap, lpLists, lpRegistered, lpStage, lpSnap, lpAtSnap,
                   lpStored, lpCount>>
    /\ UNCHANGED nonStageVars

\* The range loop has visited every element: on to the next block.
LpStageEnd ==
    /\ lpPc = "range"
    /\ lpIdx >= Iterated(lpSnap, lpLists[lpStage]).len
    /\ lpStage' = NextStage(lpStage)
    /\ lpPc' = IF NextStage(lpStage) = "store" THEN "store" ELSE "lock"
    /\ UNCHANGED <<lpHeap, lpLists, lpRegistered, lpSnap, lpIdx, lpEntry,
                   lpAtSnap, lpCalls, lpStored, lpCount, lpMetrics>>
    /\ UNCHANGED nonStageVars

\* p.storage.Store(ctx, entry) and the counter that follows.
LpStore ==
    /\ lpPc = "store"
    /\ lpCalls' = Append(lpCalls, [call |-> "store", id |-> 0])
    /\ lpStored' = Append(lpStored, [entry |-> lpEntry, calls |-> lpCalls',
                                     lists |-> lpAtSnap, ok |-> StoreOk(lpEntry)])
    /\ lpMetrics' = IF StoreOk(lpEntry)
                    THEN [lpMetrics EXCEPT !.processed = @ + 1]
                    ELSE [lpMetrics EXCEPT !.errored = @ + 1]
    /\ lpPc' = "idle"
    /\ UNCHANGED <<lpHeap, lpLists, lpRegistered, lpStage, lpSnap, lpIdx,
                   lpEntry, lpAtSnap, lpCount>>
    /\ UNCHANGED nonStageVars

InitStages ==
    /\ Quiet
    /\ IdleExceptStages
    /\ NewStageProcessor

NextStages ==
    \/ \E f \in FilterChoices : LpAddFilter(f)
    \/ LpAddTransformer
    \/ LpAddPlugin
    \/ \E entry \in StageEntries : LpBegin(entry)
    \/ LpSnapshot
    \/ LpApply
    \/ LpStageEnd
    \/ LpStore

SpecStages == InitStages /\ [][NextStages]_vars

\* The calls that apply the given items in order.
CallsOn(items) == [i \in 1..Len(items) |-> [call |-> items[i].kind, id |-> items[i].id]]

\* The ids of the given items in order.
IdsOf(items) == [i \in 1..Len(items) |-> items[i].id]

\* C32: for every entry handed to Store, the calls made on it were: every
\* filter, then every transformer in registration order, then every plugin
\* in registration order, then Store; and the entry Store received carries
\* the change of every one of these transformers and plugins.
C32_StagesInOrder ==
    \A n \in 1..Len(lpStored) :
        LET s == lpStored[n]
        IN  /\ s.calls = CallsOn(s.lists["filter"])
                            \o CallsOn(s.lists["transformer"])
                            \o CallsOn(s.lists["plugin"])
                            \o <<[call |-> "store", id |-> 0]>>
            /\ \A k \in StageKinds : \A i, j \in 1..Len(s.lists[k]) :
                  i < j => s.lists[k][i].id < s.lists[k][j].id
            /\ s.entry.touched = IdsOf(s.lists["transformer"])
                                    \o IdsOf(s.lists["plugin"])

\* An entry was stored after at least one filter, two transformers
\* registered around a plugin, and that plugin.
C32_Witness ==
    \E n \in 1..Len(lpStored) :
        /\ Len(lpStored[n].lists["filter"]) >= 1
        /\ Len(lpStored[n].lists["transformer"]) = 2
        /\ Len(lpStored[n].lists["plugin"]) = 1
        /\ lpStored[n].lists["plugin"][1].id < lpStored[n].lists["transformer"][2].id
        /\ Len(lpStored[n].entry.touched) = 3

\* The blocks of processEntry in their order.
StageRank(stage) ==
    CASE stage = "filter" -> 1
      [] stage = "transformer" -> 2
      [] stage = "plugin" -> 3
      [] stage = "store" -> 4
      [] OTHER -> 0

IsPrefix(a, b) == Len(a) <= Len(b) /\ a = SubSeq(b, 1, Len(a))

\* The calls of one kind among the calls of the current processEntry call.
StageCalls(kind) ==
    LET is(c) == c.call = kind
    IN  SelectSeq(lpCalls, is)

\* The current processEntry call was ended by a filter.
Rejected == lpPc = "idle" /\ lpStage = "filter"

\* C33: with AddFilter, AddTransformer and AddPlugin running between the
\* steps of processEntry, the list a stage runs over is the list as it was
\* registered when the stage copied it under the read lock: a prefix of the
\* registration order, applied element by element in that order (up to the
\* filter that rejects the entry), to which an item registered after the
\* copy is never added and whose elements no later append changes.
C33_SnapshotIsolation ==
    \A k \in StageKinds :
        /\ IsPrefix(lpAtSnap[k], lpRegistered[k])
        /\ IsPrefix(StageCalls(k), CallsOn(lpAtSnap[k]))
        /\ (StageRank(lpStage) > StageRank(k)) =>
              StageCalls(k) = CallsOn(lpAtSnap[k])
        /\ \A i \in (Len(lpAtSnap[k]) + 1)..Len(lpRegistered[k]) :
              \A c \in 1..Len(lpCalls) : lpCalls[c].id # lpRegistered[k][i].id
        /\ (lpPc = "range" /\ lpStage = k) =>
              /\ lpSnap.len = Len(lpAtSnap[k])
              /\ SliceItems(lpHeap[k], lpSnap) = lpAtSnap[k]

\* A stage is running over its copy of three elements while an append has
\* written a fourth into the same backing array.
C33_Witness ==
    \E k \in StageKinds :
        /\ lpPc = "range"
        /\ lpStage = k
        /\ lpIdx >= 1
        /\ lpSnap.len = 3
        /\ lpLists[k].len = 4
        /\ lpLists[k].arr = lpSnap.arr

(***************************************************************************)
(* Claims about the order of the job queue (SpecPool, whose pool has one   *)
(* worker goroutine; job i runs processEntry on the i-th entry handed to   *)
(* Process).                                                               *)
(***************************************************************************)

\* One step of the pool keeps the queue first-in first-out.
QueueStep ==
    \* Submit puts the next entry of the batch behind the jobs already queued
    /\ (procPos' = procPos + 1 /\ accepted' # accepted) =>
          jobs' = Append(jobs, procPos + 1)
    \* a worker takes the job accepted earliest
    /\ \A w \in 1..Len(wjob) :
          (wstate[w] = "select" /\ wstate'[w] = "running") =>
              /\ wjob'[w] = Head(jobs)
              /\ jobs' = Tail(jobs)
    \* the queue holds the accepted jobs in the order of Process's loop
    /\ \A i, j \in 1..Len(jobs') : i < j => jobs'[i] < jobs'[j]
    \* with one worker goroutine, processEntry (and with it Store) runs on
    \* the entries in batch order
    /\ (Len(wstate) = 1 /\ executed' # executed) =>
          \A old \in executed : \A new \in executed' \ executed : old < new

\* C34: the job queue is first-in first-out: Process enqueues the entries
\* of a batch in batch order and a worker dequeues the job that Submit
\* accepted earliest, so with one worker the entries of a batch reach
\* storage in batch order.
C34_QueueIsFIFO == [][QueueStep]_vars

\* The one worker has run the first two entries of a batch in their order
\* while later ones wait in the queue.
C34_Witness ==
    /\ Len(wstate) = 1
    /\ executed = {1, 2}
    /\ Len(jobs) >= 2
    /\ jobs[1] = 3

(***************************************************************************)
(* Claims about who runs a job (SpecPanic, whose pool has up to            *)
(* MaxPanicWorkers worker goroutines receiving from the one queue).        *)
(***************************************************************************)

\* The jobs waiting in the queue.
Queued == {jobs[i] : i \in 1..Len(jobs)}

\* The jobs the workers are running.
Running == {wjob[w] : w \in {x \in 1..Len(wjob) : wjob[x] # 0}}

\* C38: a job accepted by Submit is in exactly one place: once in the
\* queue, or with exactly one worker, or done; so it is run at most once and
\* by one worker, however many workers receive from the queue.  A job that
\* Submit dropped is in none of these places.  Hence every entry that
\* processEntry has handled (and handed to storage) came from a batch given
\* to Process and was handled once.
C38_JobRunsAtMostOnce ==
    /\ \A i, j \in 1..Len(jobs) : i # j => jobs[i] # jobs[j]
    /\ \A v, w \in 1..Len(wjob) : (v # w /\ wjob[v] # 0) => wjob[v] # wjob[w]
    /\ Queued \cap Running = {}
    /\ Queued \cap executed = {}
    /\ Running \cap executed = {}
    /\ (Queued \cup Running \cup executed) \subseteq accepted
    /\ dropped \cap accepted = {}
    /\ (accepted \cup dropped) \subseteq 1..procPos

\* Two workers are running two different jobs at the same time, after
\* another job was run to its end.
C38_Witness ==
    /\ Len(wstate) = 2
    /\ wstate[1] = "running"
    /\ wstate[2] = "running"
    /\ wjob[1] # wjob[2]
    /\ executed # {}

(***************************************************************************)
(* Claims about what the file collector hands to Process (SpecCollector).  *)
(***************************************************************************)

RECURSIVE Flatten(_)
\* The entries of a sequence of batches, in order.
Flatten(batches) ==
    IF batches = <<>> THEN <<>> ELSE Head(batches) \o Flatten(Tail(batches))

\* C35: every batch FileCollector hands to Process holds between 1 and 100
\* entries; each entry has message and raw data equal to one line of the
\* file and the collector's source; over all batches the lines come in file
\* order and no line comes twice.
C35_BatchesOfLines ==
    /\ \A b \in 1..Len(sent) :
          /\ Len(sent[b]) >= 1
          /\ Len(sent[b]) <= 100
          /\ \A i \in 1..Len(sent[b]) :
                /\ sent[b][i].Message \in 1..linesWritten
                /\ sent[b][i].RawData = sent[b][i].Message
                /\ sent[b][i].Source = FcSource
    /\ LET all == Flatten(sent)
       IN  \A i \in 1..(Len(all) - 1) : all[i].Message < all[i + 1].Message

\* A pass over 101 new lines has handed over a batch of 100 and a batch of 1.
C35_Witness ==
    /\ Len(sent) = 2
    /\ Len(sent[1]) = 100
    /\ Len(sent[2]) = 1
    /\ sent[2][1].Message = 101

\* The lines Process has been given.
SentLines == {e.Message : e \in {Flatten(sent)[i] : i \in 1..Len(Flatten(sent))}}

\* C36: the collector keeps tailing: when a poll has run to its end without
\* an error, every line that was in the file when the poll began has been
\* handed to Process, also a line appended after an earlier poll had
\* reached the end of the file.
C36_KeepsTailing ==
    [][(fcPc = "reading" /\ fcPc' = "select") =>
          (1..linesWritten) \subseteq SentLines']_vars

(***************************************************************************)
(* Claims about the entries the HTTP collector makes of a JSON body        *)
(* (SpecHTTP).                                                             *)
(***************************************************************************)

\* The last fetch call has ended and had a JSON body to process.
FetchedJSON ==
    /\ hcPc \in {"select", "panicked", "returned"}
    /\ hcLast # ""
    /\ ~hcResp.doErr
    /\ hcResp.status >= 200
    /\ hcResp.status < 300
    /\ ~hcResp.readErr
    /\ hcResp.json

\* One entry per element of the array, with the defaults filled in.
EntriesOfArray(items) ==
    [i \in 1..Len(items) |-> WithDefaults(DecodedEntry(items[i]))]

\* C37: for an application/json response, a body that decodes as an array
\* is taken as an array of entries, one entry per element, an empty source
\* set to the URL and a zero timestamp to now; a body that does not decode
\* as an array but as a single entry yields that entry; only a body that
\* decodes as neither yields one raw entry whose message is the body.
C37_JSONBodyAsEntries ==
    FetchedJSON =>
        LET b == hcResp.body
        IN  /\ b.kind = "array" => hcBatch = EntriesOfArray(b.items)
            /\ b.kind \in {"object", "null"} =>
                  /\ Len(hcBatch) = 1
                  /\ hcBatch[1].RawData = <<>>
                  /\ hcBatch[1].Source # <<>>
                  /\ hcBatch[1].Timestamp # 0
            /\ b.kind = "garbage" =>
                  /\ Len(hcBatch) = 1
                  /\ hcBatch[1].Message = BodyText(b)
            /\ (\E i \in 1..Len(hcBatch) : hcBatch[i].RawData # <<>>) =>
                  b.kind = "garbage"

(***************************************************************************)
(* MemoryStorage with several goroutines in Store and one in Query, each   *)
(* call taken apart at the mutex operations and at the two statements of   *)
(* Store that change m.entries.                                            *)
(***************************************************************************)

\* Goroutines calling Store (the pool's workers).
MaxStoreCallers == 2

\* Store calls, at most.
MaxConcStores == 3

\* Query calls, at most.
MaxConcQueries == 2

StoreCallers == 1..MaxStoreCallers

\* The queries issued while entries are stored.
ConcQueries == {NoQuery, [NoQuery EXCEPT !.Limit = 1]}

\* A mutex that lets every caller in.
CanLockAlways(writer, readers) == TRUE

\* sync.RWMutex.Lock returns when no goroutine holds the mutex.
CanLock(writer, readers) == writer = 0 /\ readers = 0

\* sync.RWMutex.RLock returns when no goroutine holds the mutex for writing.
CanRLock(writer) == writer = 0

\* NewMemoryStorage().WithCapacity(c) with a capacity of at least 1.
NewMemoryStorage ==
    /\ mcEntries = <<>>
    /\ mcCapacity \in 1..MaxCapacity
    /\ mcWriter = 0
    /\ mcReaders = 0
    /\ mcPc = [w \in StoreCallers |-> "idle"]
    /\ mcArg = [w \in StoreCallers |-> 0]
    /\ mcLog = <<>>
    /\ mcStores = 0
    /\ mcQPc = "idle"
    /\ mcQ = NoQuery
    /\ mcSeen = <<>>
    /\ mcRes = <<>>
    /\ mcQueries = 0

\* A worker calls Store with an entry.
McStoreCall(w, id) ==
    /\ mcPc[w] = "idle"
    /\ mcStores < MaxConcStores
    /\ mcStores' = mcStores + 1
    /\ mcPc' = [mcPc EXCEPT ![w] = "lock"]
    /\ mcArg' = [mcArg EXCEPT ![w] = id]
    /\ UNCHANGED <<mcEntries, mcCapacity, mcWriter, mcReaders, mcLog, mcQPc,
                   mcQ, mcSeen, mcRes, mcQueries>>
    /\ UNCHANGED nonMemConcVars

\* Store: m.mutex.Lock()
McLock(w) ==
    /\ mcPc[w] = "lock"
    /\ CanLock(mcWriter, mcReaders)
    /\ mcWriter' = w
    /\ mcPc' = [mcPc EXCEPT ![w] = "check"]
    /\ UNCHANGED <<mcEntries, mcCapacity, mcReaders, mcArg, mcLog, mcStores,
                   mcQPc, mcQ, mcSeen, mcRes, mcQueries>>
    /\ UNCHANGED nonMemConcVars

\* Store: "if len(m.entries) >= m.capacity { m.entries = m.entries[1:] }"
McEvict(w) ==
    /\ mcPc[w] = "check"
    /\ mcEntries' = IF Len(mcEntries) >= mcCapacity
                    THEN Tail(mcEntries) ELSE mcEntries
    /\ mcPc' = [mcPc EXCEPT ![w] = "append"]
    /\ UNCHANGED <<mcCapacity, mcWriter, mcReaders, mcArg, mcLog, mcStores,
                   mcQPc, mcQ, mcSeen, mcRes, mcQueries>>
    /\ UNCHANGED nonMemConcVars

\* Store: m.entries = append(m.entries, entry)
McAppend(w) ==
    /\ mcPc[w] = "append"
    /\ mcEntries' = Append(mcEntries, mcArg[w])
    /\ mcLog' = Append(mcLog, mcArg[w])
    /\ mcPc' = [mcPc EXCEPT ![w] = "unlock"]
    /\ UNCHANGED <<mcCapacity, mcWriter, mcReaders, mcArg, mcStores, mcQPc,
                   mcQ, mcSeen, mcRes, mcQueries>>
    /\ UNCHANGED nonMemConcVars

\* Store: the deferred m.mutex.Unlock(), and the return.
McUnlock(w) ==
    /\ mcPc[w] = "unlock"
    /\ mcWriter' = IF mcWriter = w THEN 0 ELSE mcWriter
    /\ mcPc' = [mcPc EXCEPT ![w] = "idle"]
    /\ UNCHANGED <<mcEntries, mcCapacity, mcReaders, mcArg, mcLog, mcStores,
                   mcQPc, mcQ, mcSeen, mcRes, mcQueries>>
    /\ UNCHANGED nonMemConcVars

\* A goroutine calls Query.
McQueryCall(q) ==
    /\ mcQPc = "idle"
    /\ mcQueries < MaxConcQueries
    /\ mcQueries' = mcQueries + 1
    /\ mcQ' = q
    /\ mcQPc' = "rlock"
    /\ UNCHANGED <<mcEntries, mcCapacity, mcWriter, mcReaders, mcPc, mcArg,
                   mcLog, mcStores, mcSeen, mcRes>>
    /\ UNCHANGED nonMemConcVars

\* Query: m.mutex.RLock()
McRLock ==
    /\ mcQPc = "rlock"
    /\ CanRLock(mcWriter)
    /\ mcReaders' = mcReaders + 1
    /\ mcQPc' = "scan"
    /\ UNCHANGED <<mcEntries, mcCapacity, mcWriter, mcPc, mcArg, mcLog,
                   mcStores, mcQ, mcSeen, mcRes, mcQueries>>
    /\ UNCHANGED nonMemConcVars

\* Query: the loop over m.entries and the sort.
McScan ==
    /\ mcQPc = "scan"
    /\ mcSeen' = mcEntries
    /\ \E r \in SortByTimestamp(ScanMem([i \in 1..Len(mcEntries) |->
                                            Catalog[mcEntries[i]]], mcQ)) :
          mcRes' = r
    /\ mcQPc' = "runlock"
    /\ UNCHANGED <<mcEntries, mcCapacity, mcWriter, mcReaders, mcPc, mcArg,
                   mcLog, mcStores, mcQ, mcQueries>>
    /\ UNCHANGED nonMemConcVars

\* Query: the deferred m.mutex.RUnlock(), and the return.
McRUnlock ==
    /\ mcQPc = "runlock"
    /\ mcReaders' = mcReaders - 1
    /\ mcQPc' = "idle"
    /\ UNCHANGED <<mcEntries, mcCapacity, mcWriter, mcPc, mcArg, mcLog,
                   mcStores, mcQ, mcSeen, mcRes, mcQueries>>
    /\ UNCHANGED nonMemConcVars

InitMemConc ==
    /\ Quiet
    /\ IdleExceptMemConc
    /\ NewMemoryStorage

NextMemConc ==
    \/ \E w \in StoreCallers, id \in EntryIds : McStoreCall(w, id)
    \/ \E w \in StoreCallers : McLock(w)
    \/ \E w \in StoreCallers : McEvict(w)
    \/ \E w \in StoreCallers : McAppend(w)
    \/ \E w \in StoreCallers : McUnlock(w)
    \/ \E q \in ConcQueries : McQueryCall(q)
    \/ McRLock
    \/ McScan
    \/ McRUnlock

SpecMemConc == InitMemConc /\ [][NextMemConc]_vars

RECURSIVE RingAfter(_, _)
\* The ring after Store was called with each entry of the log in turn.
RingAfter(log, cap) ==
    IF log = <<>> THEN <<>>
    ELSE MemoryStore(RingAfter(SubSeq(log, 1, Len(log) - 1), cap), cap,
                     log[Len(log)]).entries

\* C39: Store and Query on the in-memory backend are atomic with respect to
\* each other: what a Query ranged over is the ring as it was after some
\* prefix of the Store calls that have appended, never a ring from which
\* the oldest entry was dropped and to which the new one was not yet added,
\* and its result is the query evaluated on that ring; and when no Store
\* call is between its Lock and its Unlock, the ring is the ring after all
\* the appends: no entry of a concurrent Store call is lost.
C39_StoreQueryAtomic ==
    /\ (mcQPc \in {"runlock", "idle"} /\ mcQueries > 0) =>
          \E k \in 0..Len(mcLog) :
              /\ mcSeen = RingAfter(SubSeq(mcLog, 1, k), mcCapacity)
              /\ mcRes \in SortByTimestamp(ScanMem([i \in 1..Len(mcSeen) |->
                                                      Catalog[mcSeen[i]]], mcQ))
    /\ (\A w \in StoreCallers : mcPc[w] \in {"idle", "lock"}) =>
          /\ mcEntries = RingAfter(mcLog, mcCapacity)
          /\ Len(mcLog) = mcStores - Cardinality({w \in StoreCallers :
                                                    mcPc[w] = "lock"})

\* A Query has ranged over a full ring that had already dropped an entry,
\* while a Store call was waiting for the mutex.
C39_Witness ==
    /\ mcQPc = "runlock"
    /\ \E w \in StoreCallers : mcPc[w] = "lock"
    /\ Len(mcLog) > mcCapacity
    /\ mcSeen = mcEntries
    /\ Len(mcSeen) = mcCapacity

(***************************************************************************)
(* RateLimitMiddleware: internal/api/handlers.go.  tokens is a plain int   *)
(* shared by the refill goroutine and by every goroutine that serves a     *)
(* request; net/http serves each connection on its own goroutine.  The     *)
(* statement tokens-- is a read of tokens followed by a write.             *)
(***************************************************************************)

\* The largest rps the middleware is made with.
MaxRps == 2

\* Goroutines serving requests at the same time.
MaxHandlers == 2

\* Requests, at most.
MaxRequests == 3

\* Ticks of the refill ticker, at most.
MaxRefills == 2

Handlers == 1..MaxHandlers

\* RateLimitMiddleware(rps): "var tokens = rps", the ticker and its goroutine.
NewRateLimit ==
    /\ rlRps \in 1..MaxRps
    /\ rlTokens = rlRps
    /\ rlPc = [h \in Handlers |-> "idle"]
    /\ rlLocal = [h \in Handlers |-> 0]
    /\ rlStatus = [h \in Handlers |-> 0]
    /\ rlAdmitted = 0
    /\ rlRefills = 0
    /\ rlRequests = 0

\* The refill goroutine: "for range ticker.C { tokens = rps }".
RlRefill ==
    /\ rlPc # <<>>
    /\ rlRefills < MaxRefills
    /\ rlRefills' = rlRefills + 1
    /\ rlTokens' = rlRps
    /\ rlAdmitted' = 0
    /\ UNCHANGED <<rlRps, rlPc, rlLocal, rlStatus, rlRequests>>
    /\ UNCHANGED nonRateVars

\* The handler on a request: "if tokens <= 0 { http.Error(..., 429); return }".
RlCheck(h) ==
    /\ rlPc[h] = "idle"
    /\ rlRequests < MaxRequests
    /\ rlRequests' = rlRequests + 1
    /\ IF rlTokens <= 0
       THEN /\ rlStatus' = [rlStatus EXCEPT ![h] = 429]
            /\ UNCHANGED <<rlPc, rlAdmitted>>
       ELSE /\ rlPc' = [rlPc EXCEPT ![h] = "consume"]
            /\ rlAdmitted' = rlAdmitted + 1
            /\ rlStatus' = [rlStatus EXCEPT ![h] = 0]
    /\ UNCHANGED <<rlRps, rlTokens, rlLocal, rlRefills>>
    /\ UNCHANGED nonRateVars

\* tokens--: the read.
RlRead(h) ==
    /\ rlPc[h] = "consume"
    /\ rlLocal' = [rlLocal EXCEPT ![h] = rlTokens]
    /\ rlPc' = [rlPc EXCEPT ![h] = "write"]
    /\ UNCHANGED <<rlRps, rlTokens, rlStatus, rlAdmitted, rlRefills, rlRequests>>
    /\ UNCHANGED nonRateVars

\* tokens--: the write.
RlWrite(h) ==
    /\ rlPc[h] = "write"
    /\ rlTokens' = rlLocal[h] - 1
    /\ rlPc' = [rlPc EXCEPT ![h] = "serve"]
    /\ UNCHANGED <<rlRps, rlLocal, rlStatus, rlAdmitted, rlRefills, rlRequests>>
    /\ UNCHANGED nonRateVars

\* next.ServeHTTP(w, r)
RlServe(h) ==
    /\ rlPc[h] = "serve"
    /\ rlStatus' = [rlStatus EXCEPT ![h] = 200]
    /\ rlPc' = [rlPc EXCEPT ![h] = "idle"]
    /\ UNCHANGED <<rlRps, rlTokens, rlLocal, rlAdmitted, rlRefills, rlRequests>>
    /\ UNCHANGED nonRateVars

InitRateLimit ==
    /\ Quiet
    /\ IdleExceptRateLimit
    /\ NewRateLimit

NextRateLimit ==
    \/ RlRefill
    \/ \E h \in Handlers : RlCheck(h)
    \/ \E h \in Handlers : RlRead(h)
    \/ \E h \in Handlers : RlWrite(h)
    \/ \E h \in Handlers : RlServe(h)

SpecRateLimit == InitRateLimit /\ [][NextRateLimit]_vars

\* C40: RateLimitMiddleware admits at most rps requests between two
\* consecutive refills of the token counter, and the token counter never
\* goes below zero, with requests served concurrently with each other and
\* with the refill.
C40_AtMostRpsPerWindow ==
    /\ rlAdmitted <= rlRps
    /\ rlTokens >= 0

============================================================================
